---- MODULE Spec2Model ----
(***************************************************************************)
(* termchess: the board, the move generator, the legal-move filter, the    *)
(* threat oracle and the Game state machine, as a state machine whose one  *)
(* step is Game::play_move.                                                *)
(*                                                                         *)
(* A square (Pos, vec2![x, y]) is the integer y*8 + x + 1, so that the     *)
(* order 1..64 is the order of the loops `for y in 0..8 { for x in 0..8`.  *)
(* A cell is None (the empty tuple) or <<piece, color>>.                   *)
(***************************************************************************)
EXTENDS Integers, Sequences, FiniteSets, TLC

(***************************************************************************)
(* Bounds of the exploration.                                              *)
(***************************************************************************)
\* play_move calls explored after the initial position of a run
MaxPly == 1

(***************************************************************************)
(* piece.rs                                                                *)
(***************************************************************************)
Piece == {"King", "Queen", "Bishop", "Knight", "Rook", "Pawn"}

Color == {"Black", "White"}

Not(color) == IF color = "Black" THEN "White" ELSE "Black"

(***************************************************************************)
(* Positions and cells                                                     *)
(***************************************************************************)
Pos(x, y) == y * 8 + x + 1

PX(pos) == (pos - 1) % 8

PY(pos) == (pos - 1) \div 8

\* Option<..>::None of a cell, of a square and of a piece kind
None == <<>>

NoPos == 0

NoPiece == "None"

inside(x, y) == x >= 0 /\ y >= 0 /\ x <= 7 /\ y <= 7

Squares == 1 .. 64

(***************************************************************************)
(* board.rs: Castle, Board                                                 *)
(***************************************************************************)
Castle(short, long) == [short |-> short, long |-> long]

CastleNew == Castle(TRUE, TRUE)

first_rank == <<"Rook", "Knight", "Bishop", "Queen", "King", "Bishop", "Knight", "Rook">>

starting_position ==
    [ board |-> [p \in Squares |->
                    CASE PY(p) = 6 -> <<"Pawn", "Black">>
                      [] PY(p) = 1 -> <<"Pawn", "White">>
                      [] PY(p) = 7 -> <<first_rank[PX(p) + 1], "Black">>
                      [] PY(p) = 0 -> <<first_rank[PX(p) + 1], "White">>
                      [] OTHER -> None],
      moved_pawn |-> NoPos,
      white_castle |-> CastleNew,
      black_castle |-> CastleNew ]

can_castle(self, color) ==
    IF color = "Black" THEN self.black_castle ELSE self.white_castle

\* the first king of `color` in the order rows, then files; NoPos for None
find_king(self, color) ==
    LET kings == {p \in Squares : self.board[p] = <<"King", color>>}
    IN  IF kings = {} THEN NoPos
        ELSE CHOOSE p \in kings : \A q \in kings : p <= q

(***************************************************************************)
(* moves.rs: the move generator, and Board::threatens which it calls for   *)
(* the castling squares.  moves (for a king) and threatens call each       *)
(* other; the Rust call stack is finite, so a chain of calls that comes    *)
(* back to moves(King) of a colour whose moves(King) is still running on   *)
(* the same board repeats itself for ever and ends in a stack overflow.    *)
(* `kings` is the set of colours whose moves(King) call is in progress;    *)
(* the element StackOverflow in a result stands for that abort.            *)
(***************************************************************************)
StackOverflow == 65

occupied(game, color, p) ==
    IF game.board[p] = None THEN "No"
    ELSE IF game.board[p][2] = color THEN "Ally" ELSE "Enemy"

RECURSIVE dir_moves(_, _, _, _, _, _)
\* the loop of dir_moves from its first assignment cur += dir: (x, y) is cur
dir_moves(game, color, x, y, dx, dy) ==
    IF ~inside(x, y) THEN {}
    ELSE CASE occupied(game, color, Pos(x, y)) = "No" ->
                  {Pos(x, y)} \cup dir_moves(game, color, x + dx, y + dy, dx, dy)
           [] occupied(game, color, Pos(x, y)) = "Enemy" -> {Pos(x, y)}
           [] OTHER -> {}

rook(game, color, pos) ==
    UNION { dir_moves(game, color, PX(pos) + dir[1], PY(pos) + dir[2], dir[1], dir[2]) :
              dir \in { <<0 - 1, 0>>, <<1, 0>>, <<0, 0 - 1>>, <<0, 1>> } }

bishop(game, color, pos) ==
    UNION { dir_moves(game, color, PX(pos) + dir[1], PY(pos) + dir[2], dir[1], dir[2]) :
              dir \in { <<0 - 1, 0 - 1>>, <<0 - 1, 1>>, <<1, 0 - 1>>, <<1, 1>> } }

knight_offsets ==
    { <<0 - 2, 1>>, <<0 - 1, 2>>, <<1, 2>>, <<2, 1>>,
      <<2, 0 - 1>>, <<1, 0 - 2>>, <<0 - 1, 0 - 2>>, <<0 - 2, 0 - 1>> }

knight(game, color, pos) ==
    { Pos(PX(pos) + o[1], PY(pos) + o[2]) :
        o \in { o \in knight_offsets :
                  /\ inside(PX(pos) + o[1], PY(pos) + o[2])
                  /\ occupied(game, color, Pos(PX(pos) + o[1], PY(pos) + o[2])) # "Ally" } }

\* pawn with the two-square advance allowed from the rank behind the starting rank
pawn_wrong_rank(game, color, pos) ==
    IF (color = "White" /\ PY(pos) = 7) \/ (color = "Black" /\ PY(pos) = 0) THEN {}
    ELSE
    LET d == IF color = "White" THEN 1 ELSE 0 - 1
        mp == game.moved_pawn
        l_en_passant == mp # NoPos /\ PX(mp) = PX(pos) - 1 /\ PY(mp) = PY(pos)
        r_en_passant == mp # NoPos /\ PX(mp) = PX(pos) + 1 /\ PY(mp) = PY(pos)
        lx == PX(pos) - 1
        rx == PX(pos) + 1
        y1 == PY(pos) + d
        m == Pos(PX(pos), y1)
        m2 == Pos(PX(pos), PY(pos) + 2 * d)
    IN  (IF l_en_passant \/ (inside(lx, y1) /\ occupied(game, color, Pos(lx, y1)) = "Enemy")
            THEN {Pos(lx, y1)} ELSE {})
        \cup
        (IF r_en_passant \/ (inside(rx, y1) /\ occupied(game, color, Pos(rx, y1)) = "Enemy")
            THEN {Pos(rx, y1)} ELSE {})
        \cup
        (IF game.board[m] = None
            THEN {m} \cup
                 (IF /\ (color = "White" /\ PY(pos) = 0) \/ (color = "Black" /\ PY(pos) = 7)
                     /\ game.board[m2] = None
                    THEN {m2} ELSE {})
            ELSE {})

pawn(game, color, pos) ==
    IF (color = "White" /\ PY(pos) = 7) \/ (color = "Black" /\ PY(pos) = 0) THEN {}
    ELSE
    LET d == IF color = "White" THEN 1 ELSE 0 - 1
        mp == game.moved_pawn
        l_en_passant == mp # NoPos /\ PX(mp) = PX(pos) - 1 /\ PY(mp) = PY(pos)
        r_en_passant == mp # NoPos /\ PX(mp) = PX(pos) + 1 /\ PY(mp) = PY(pos)
        lx == PX(pos) - 1
        rx == PX(pos) + 1
        y1 == PY(pos) + d
        m == Pos(PX(pos), y1)
        m2 == Pos(PX(pos), PY(pos) + 2 * d)
    IN  (IF l_en_passant \/ (inside(lx, y1) /\ occupied(game, color, Pos(lx, y1)) = "Enemy")
            THEN {Pos(lx, y1)} ELSE {})
        \cup
        (IF r_en_passant \/ (inside(rx, y1) /\ occupied(game, color, Pos(rx, y1)) = "Enemy")
            THEN {Pos(rx, y1)} ELSE {})
        \cup
        (IF game.board[m] = None
            THEN {m} \cup
                 (IF /\ (color = "White" /\ PY(pos) = 1) \/ (color = "Black" /\ PY(pos) = 6)
                     /\ game.board[m2] = None
                    THEN {m2} ELSE {})
            ELSE {})

king_adjacent(game, color, pos) ==
    { Pos(x, y) :
        <<x, y>> \in { c \in ((PX(pos) - 1) .. (PX(pos) + 1)) \X ((PY(pos) - 1) .. (PY(pos) + 1)) :
                          /\ inside(c[1], c[2])
                          /\ occupied(game, color, Pos(c[1], c[2])) # "Ally" } }

RECURSIVE moves(_, _, _, _, _)
RECURSIVE threatens_in(_, _, _, _)
RECURSIVE all_unthreatened(_, _, _, _, _)

\* Board::threatens: "yes", "no", or "overflow" when a moves call it makes
\* never returns.  The pieces are visited in the order of the two loops and
\* the first one that has `pos` among its moves, or whose moves call does not
\* return, ends the search (only a king's moves call can fail to return).
\* `called` holds the result of the moves call of every piece; those of the
\* pieces after the one that ends the search play no part in the answer.
threatens_in(self, pos, color, kings) ==
    LET first_end(called) ==
            LET ending == { r \in called : StackOverflow \in r[2] \/ pos \in r[2] }
            IN  IF ending = {} THEN "no"
                ELSE IF StackOverflow \in (CHOOSE r \in ending : \A q \in ending : r[1] <= q[1])[2]
                     THEN "overflow" ELSE "yes"
    IN  first_end({ <<p, moves(self, self.board[p][1], p, color, kings)>> :
                      p \in { p \in Squares : self.board[p] # None /\ self.board[p][2] = color } })

\* (lo ..= hi).all(|x| !game.threatens(vec2![x, y], !color)), left to right,
\* stopping at the first threatened square: "yes" (all unthreatened), "no",
\* or "overflow"
all_unthreatened(game, color, y, xs, kings) ==
    IF xs = <<>> THEN "yes"
    ELSE LET after(t) == CASE t = "overflow" -> "overflow"
                           [] t = "yes" -> "no"
                           [] OTHER -> all_unthreatened(game, color, y, Tail(xs), kings)
         IN  after(threatens_in(game, Pos(Head(xs), y), Not(color), kings))

king(game, color, pos, kings) ==
    IF color \in kings THEN {StackOverflow}
    ELSE
    LET castle == can_castle(game, color)
        y == IF color = "Black" THEN 7 ELSE 0
        with(long, short) ==
            IF long = "overflow" THEN {StackOverflow}
            ELSE IF short = "overflow" THEN {StackOverflow}
            ELSE king_adjacent(game, color, pos)
                    \cup (IF long = "yes" THEN {Pos(2, y)} ELSE {})
                    \cup (IF short = "yes" THEN {Pos(6, y)} ELSE {})
    IN  with(IF castle.long /\ (\A x \in 1 .. 3 : occupied(game, color, Pos(x, y)) = "No")
                THEN all_unthreatened(game, color, y, <<2, 3, 4>>, kings \cup {color})
                ELSE "no",
             IF castle.short /\ (\A x \in 5 .. 6 : occupied(game, color, Pos(x, y)) = "No")
                THEN all_unthreatened(game, color, y, <<4, 5, 6>>, kings \cup {color})
                ELSE "no")

moves(game, piece, pos, color, kings) ==
    CASE piece = "King" -> king(game, color, pos, kings)
      [] piece = "Queen" -> rook(game, color, pos) \cup bishop(game, color, pos)
      [] piece = "Bishop" -> bishop(game, color, pos)
      [] piece = "Knight" -> knight(game, color, pos)
      [] piece = "Rook" -> rook(game, color, pos)
      [] OTHER -> pawn(game, color, pos)

\* Board::threatens as the rest of the program calls it
threatens(self, pos, color) == threatens_in(self, pos, color, {})

(***************************************************************************)
(* board.rs: Board::move_piece.  The result is the board after the call,   *)
(* the returned Option<Piece> and whether the call panicked (the board of  *)
(* a panicked call is the one it started from).                            *)
(***************************************************************************)
Done(self, taken) == [self |-> self, taken |-> taken, panic |-> FALSE]

Panic(self) == [self |-> self, taken |-> NoPiece, panic |-> TRUE]

\* move_king writing true where the code writes false into the mover's rights
move_king_grants_rights(self, color, to) ==
    IF color = "Black"
    THEN [self EXCEPT
            !.board = IF to = Pos(2, 7) /\ self.black_castle.long
                         THEN [self.board EXCEPT ![Pos(3, 7)] = self.board[Pos(0, 7)],
                                                 ![Pos(0, 7)] = None]
                      ELSE IF to = Pos(6, 7) /\ self.black_castle.short
                         THEN [self.board EXCEPT ![Pos(5, 7)] = self.board[Pos(7, 7)],
                                                 ![Pos(7, 7)] = None]
                      ELSE self.board,
            !.black_castle = Castle(TRUE, TRUE)]
    ELSE [self EXCEPT
            !.board = IF to = Pos(2, 0) /\ self.white_castle.long
                         THEN [self.board EXCEPT ![Pos(3, 0)] = self.board[Pos(0, 0)],
                                                 ![Pos(0, 0)] = None]
                      ELSE IF to = Pos(6, 0) /\ self.white_castle.short
                         THEN [self.board EXCEPT ![Pos(5, 0)] = self.board[Pos(7, 0)],
                                                 ![Pos(6, 0)] = None]
                      ELSE self.board,
            !.white_castle = Castle(TRUE, TRUE)]

\* lines 184-208: the king's branch, rook relocation and the rights
move_king(self, color, to) ==
    IF color = "Black"
    THEN [self EXCEPT
            !.board = IF to = Pos(2, 7) /\ self.black_castle.long
                         THEN [self.board EXCEPT ![Pos(3, 7)] = self.board[Pos(0, 7)],
                                                 ![Pos(0, 7)] = None]
                      ELSE IF to = Pos(6, 7) /\ self.black_castle.short
                         THEN [self.board EXCEPT ![Pos(5, 7)] = self.board[Pos(7, 7)],
                                                 ![Pos(7, 7)] = None]
                      ELSE self.board,
            !.black_castle = Castle(FALSE, FALSE)]
    ELSE [self EXCEPT
            !.board = IF to = Pos(2, 0) /\ self.white_castle.long
                         THEN [self.board EXCEPT ![Pos(3, 0)] = self.board[Pos(0, 0)],
                                                 ![Pos(0, 0)] = None]
                      ELSE IF to = Pos(6, 0) /\ self.white_castle.short
                         THEN [self.board EXCEPT ![Pos(5, 0)] = self.board[Pos(7, 0)],
                                                 ![Pos(6, 0)] = None]
                      ELSE self.board,
            !.white_castle = Castle(FALSE, FALSE)]

\* lines 209-216: the rook's branch
move_rook(self, color, from) ==
    CASE PX(from) = 0 /\ color = "Black" -> [self EXCEPT !.black_castle.long = FALSE]
      [] PX(from) = 7 /\ color = "Black" -> [self EXCEPT !.black_castle.short = FALSE]
      [] PX(from) = 0 /\ color = "White" -> [self EXCEPT !.white_castle.long = FALSE]
      [] PX(from) = 7 /\ color = "White" -> [self EXCEPT !.white_castle.short = FALSE]
      [] OTHER -> self

\* move_tail with moved_pawn left as it was when the moved piece is no pawn
move_tail_keeps_moved_pawn(self, piece, color, from, to) ==
    LET taken == self.board[to]
    IN  IF taken # None /\ taken[2] = color THEN Panic(self)
        ELSE Done([self EXCEPT !.board = [self.board EXCEPT ![to] = self.board[from],
                                                            ![from] = None],
                               !.moved_pawn = IF piece = "Pawn" THEN to ELSE self.moved_pawn],
                  IF taken = None THEN NoPiece ELSE taken[1])

\* lines 240-248: the common tail
move_tail(self, piece, color, from, to) ==
    LET taken == self.board[to]
    IN  IF taken # None /\ taken[2] = color THEN Panic(self)
        ELSE Done([self EXCEPT !.board = [self.board EXCEPT ![to] = self.board[from],
                                                            ![from] = None],
                               !.moved_pawn = IF piece = "Pawn" THEN to ELSE NoPos],
                  IF taken = None THEN NoPiece ELSE taken[1])

\* move_pawn with the en-passant branch leaving the captured pawn on its square
move_pawn_keeps_captured(self, color, from, to) ==
    IF (color = "White" /\ PY(to) = 7) \/ (color = "Black" /\ PY(to) = 0)
    THEN Done([self EXCEPT !.board = [self.board EXCEPT ![to] = <<"Queen", color>>,
                                                        ![from] = None],
                           !.moved_pawn = NoPos],
              NoPiece)
    ELSE
    LET y_dir == IF color = "White" THEN 1 ELSE 0 - 1
        mp == self.moved_pawn
    IN  IF mp # NoPos /\ PX(to) = PX(mp) /\ PY(to) = PY(mp) + y_dir
        THEN IF self.board[mp] = None THEN Panic(self)
             ELSE Done([self EXCEPT !.board = [self.board EXCEPT ![to] = self.board[from],
                                                                 ![from] = None],
                                    !.moved_pawn = NoPos],
                       self.board[mp][1])
        ELSE move_tail(self, "Pawn", color, from, to)

\* move_pawn without the promotion branch of lines 218-224
move_pawn_never_promotes(self, color, from, to) ==
    LET y_dir == IF color = "White" THEN 1 ELSE 0 - 1
        mp == self.moved_pawn
    IN  IF mp # NoPos /\ PX(to) = PX(mp) /\ PY(to) = PY(mp) + y_dir
        THEN IF self.board[mp] = None THEN Panic(self)
             ELSE LET took == [self.board EXCEPT ![mp] = None]
                  IN  Done([self EXCEPT !.board = [took EXCEPT ![to] = took[from],
                                                               ![from] = None],
                                        !.moved_pawn = NoPos],
                           self.board[mp][1])
        ELSE move_tail(self, "Pawn", color, from, to)

\* lines 217-239: the pawn's branch
move_pawn(self, color, from, to) ==
    IF (color = "White" /\ PY(to) = 7) \/ (color = "Black" /\ PY(to) = 0)
    THEN Done([self EXCEPT !.board = [self.board EXCEPT ![to] = <<"Queen", color>>,
                                                        ![from] = None],
                           !.moved_pawn = NoPos],
              NoPiece)
    ELSE
    LET y_dir == IF color = "White" THEN 1 ELSE 0 - 1
        mp == self.moved_pawn
    IN  IF mp # NoPos /\ PX(to) = PX(mp) /\ PY(to) = PY(mp) + y_dir
        THEN IF self.board[mp] = None THEN Panic(self)
             ELSE LET took == [self.board EXCEPT ![mp] = None]
                  IN  Done([self EXCEPT !.board = [took EXCEPT ![to] = took[from],
                                                               ![from] = None],
                                        !.moved_pawn = NoPos],
                           self.board[mp][1])
        ELSE move_tail(self, "Pawn", color, from, to)

move_piece(self, from, to) ==
    IF self.board[from] = None THEN Panic(self)
    ELSE LET piece == self.board[from][1]
             color == self.board[from][2]
         IN  CASE piece = "King" -> move_tail(move_king(self, color, to), piece, color, from, to)
               [] piece = "Rook" -> move_tail(move_rook(self, color, from), piece, color, from, to)
               [] piece = "Pawn" -> move_pawn(self, color, from, to)
               [] OTHER -> move_tail(self, piece, color, from, to)

(***************************************************************************)
(* board.rs: Board::in_check_after and Board::moves.  A call ends "ok",    *)
(* "overflow" (the stack overflow of moves/threatens) or "panic".          *)
(***************************************************************************)
\* "yes", "no", "overflow" or "panic"
in_check_after(self, from, to, color) ==
    LET moved == move_piece(self, from, to)
        king_pos == find_king(moved.self, color)
    IN  IF moved.panic \/ king_pos = NoPos THEN "panic"
        ELSE threatens(moved.self, king_pos, Not(color))

\* piece_moves without the drain_filter of in_check_after
piece_moves_unfiltered(self, pos, turn) ==
    LET kept(cand) ==
            IF StackOverflow \in cand THEN [end |-> "overflow", moves |-> {}]
            ELSE [end |-> "ok", moves |-> cand]
    IN  kept(moves(self, self.board[pos][1], pos, turn, {}))

\* moves.drain_filter(|to| self.in_check_after(pos, *to, turn)) on the
\* candidates of the piece on `pos`
drain_filter(self, pos, turn, cand) ==
    LET kept(checked) ==
            IF \E c \in checked : c[2] = "overflow" THEN [end |-> "overflow", moves |-> {}]
            ELSE IF \E c \in checked : c[2] = "panic" THEN [end |-> "panic", moves |-> {}]
            ELSE [end |-> "ok", moves |-> { c[1] : c \in { c \in checked : c[2] = "no" } }]
    IN  IF StackOverflow \in cand THEN [end |-> "overflow", moves |-> {}]
        ELSE kept({ <<to_pos, in_check_after(self, pos, to_pos, turn)>> : to_pos \in cand })

\* one pass of the loop body of Board::moves for the piece on `pos`
piece_moves(self, pos, turn) ==
    drain_filter(self, pos, turn, moves(self, self.board[pos][1], pos, turn, {}))

\* Board::moves inserting a key only for a piece that has a move left
Board_moves_skips_empty(self, turn) ==
    LET own == { p \in Squares : self.board[p] # None /\ self.board[p][2] = turn }
        collect(passes) ==
            LET failed == { r \in passes : r[2].end # "ok" }
            IN  IF failed # {}
                THEN [ end |-> (CHOOSE r \in failed : \A q \in failed : r[1] <= q[1])[2].end,
                       all_moves |-> <<>>, total_moves |-> 0 ]
                ELSE [ end |-> "ok",
                       all_moves |-> [p \in { r[1] : r \in { q \in passes : q[2].moves # {} } } |->
                                         (CHOOSE r \in passes : r[1] = p)[2].moves],
                       total_moves |->
                           Cardinality(UNION { { <<r[1], t>> : t \in r[2].moves } : r \in passes }) ]
    IN  collect({ <<p, piece_moves(self, p, turn)>> : p \in own })

\* Board::moves: [end, all_moves, total_moves]; the first piece, in the order
\* of the loops, whose pass does not return ends the call
Board_moves(self, turn) ==
    LET own == { p \in Squares : self.board[p] # None /\ self.board[p][2] = turn }
        collect(passes) ==
            LET failed == { r \in passes : r[2].end # "ok" }
            IN  IF failed # {}
                THEN [ end |-> (CHOOSE r \in failed : \A q \in failed : r[1] <= q[1])[2].end,
                       all_moves |-> <<>>, total_moves |-> 0 ]
                ELSE [ end |-> "ok",
                       all_moves |-> [p \in own |-> (CHOOSE r \in passes : r[1] = p)[2].moves],
                       total_moves |->
                           Cardinality(UNION { { <<r[1], t>> : t \in r[2].moves } : r \in passes }) ]
    IN  collect({ <<p, piece_moves(self, p, turn)>> : p \in own })

(***************************************************************************)
(* ai.rs: find_best, eval, piece_score and movalyzer.  The legal moves are *)
(* a HashMap of HashSets, whose iteration order the program does not       *)
(* choose: `order` is the (from, to) pair the loops of find_best meet      *)
(* first, the other keys and destinations following in ascending order.    *)
(* A result is [end, move, score] with end "ok", "overflow" or "panic".    *)
(***************************************************************************)
\* Score::MIN of an i32
Score_MIN == 0 - 2147483647 - 1

\* the score find_best returns for a side that is checkmated
Lost == 0 - 100000

piece_score(piece, pos, color) ==
    CASE piece = "King" -> 0
      [] piece = "Queen" -> 9000
      [] piece = "Bishop" -> 3000
      [] piece = "Knight" -> 3000
      [] piece = "Rook" -> 5000
      [] OTHER -> 1000 + (IF color = "White" THEN PY(pos) ELSE 7 - PY(pos)) * 114

\* the inner loop of eval: row y from file x on
RECURSIVE eval_row(_, _, _, _)
eval_row(self, color, y, x) ==
    IF x > 7 THEN 0
    ELSE (IF self.board[Pos(x, y)] = None THEN 0
          ELSE IF self.board[Pos(x, y)][2] # color
               THEN piece_score(self.board[Pos(x, y)][1], Pos(x, y),
                                self.board[Pos(x, y)][2]) * (0 - 1)
               ELSE piece_score(self.board[Pos(x, y)][1], Pos(x, y),
                                self.board[Pos(x, y)][2]))
         + eval_row(self, color, y, x + 1)

\* the outer loop of eval: the rows from y on
RECURSIVE eval_rows(_, _, _)
eval_rows(self, color, y) ==
    IF y > 7 THEN 0 ELSE eval_row(self, color, y, 0) + eval_rows(self, color, y + 1)

eval(self, color) == eval_rows(self, color, 0)

\* Board::threatens(pos, color, flag) as ai.rs calls it: whether a piece of
\* color has pos among its candidate moves
threatens_flag(self, pos, color, flag) == threatens(self, pos, color)

\* the elements of a set of squares in ascending order
RECURSIVE ascending(_)
ascending(squares) ==
    IF squares = {} THEN <<>>
    ELSE <<CHOOSE p \in squares : \A q \in squares : p <= q>>
         \o ascending(squares \ {CHOOSE p \in squares : \A q \in squares : p <= q})

\* the sequences of a sequence of sequences, one after the other
RECURSIVE flatten(_)
flatten(seqs) == IF seqs = <<>> THEN <<>> ELSE Head(seqs) \o flatten(Tail(seqs))

\* the (from, to) pairs in the order the two loops of find_best meet them
iteration(all_moves, order) ==
    LET keys == IF order[1] \in DOMAIN all_moves
                   THEN <<order[1]>> \o ascending(DOMAIN all_moves \ {order[1]})
                   ELSE ascending(DOMAIN all_moves)
        dests(from) == IF from = order[1] /\ order[2] \in all_moves[from]
                          THEN <<order[2]>> \o ascending(all_moves[from] \ {order[2]})
                          ELSE ascending(all_moves[from])
    IN  flatten([i \in DOMAIN keys |->
                    [j \in DOMAIN dests(keys[i]) |-> <<keys[i], dests(keys[i])[j]>>]])

\* no_moves scoring 0 whether or not the king is threatened
no_moves_always_zero(self, color) ==
    LET king_pos == find_king(self, color)
        answer(t) == CASE t = "yes" -> [end |-> "ok", move |-> None, score |-> 0]
                       [] t = "no" -> [end |-> "ok", move |-> None, score |-> 0]
                       [] OTHER -> [end |-> t, move |-> None, score |-> 0]
    IN  IF king_pos = NoPos THEN [end |-> "panic", move |-> None, score |-> 0]
        ELSE answer(threatens_flag(self, king_pos, Not(color), FALSE))

\* lines 30-37: turn has no legal move
no_moves(self, color) ==
    LET king_pos == find_king(self, color)
        answer(t) == CASE t = "yes" -> [end |-> "ok", move |-> None, score |-> Lost]
                       [] t = "no" -> [end |-> "ok", move |-> None, score |-> 0]
                       [] OTHER -> [end |-> t, move |-> None, score |-> 0]
    IN  IF king_pos = NoPos THEN [end |-> "panic", move |-> None, score |-> 0]
        ELSE answer(threatens_flag(self, king_pos, Not(color), FALSE))

\* lines 39, 51-53 and 62: best_move over the moves met and their scores, in
\* the order of the loops; a call that has not returned ends the search
RECURSIVE pick(_, _, _, _)
pick(todo, scored, i, best_move) ==
    IF i > Len(todo) THEN [end |-> "ok", move |-> best_move[1], score |-> best_move[2]]
    ELSE IF scored[i].end # "ok" THEN [end |-> scored[i].end, move |-> None, score |-> 0]
    ELSE pick(todo, scored, i + 1,
              IF scored[i].score > best_move[2] THEN <<todo[i], scored[i].score>>
              ELSE best_move)

\* line 49: the enemy's score, negated
negated(found) == [end |-> found.end, score |-> 0 - found.score]

RECURSIVE find_best(_, _, _, _, _)

\* move_score taking the enemy's score as it is, without negating it
move_score_not_negated(self, color, depth, level, order, mv) ==
    IF depth = 0 THEN [end |-> "ok", score |-> eval(self, color)]
    ELSE find_best(move_piece(self, mv[1], mv[2]).self, Not(color),
                   depth - 1, level + 1, order)

\* lines 43-50: the score of one move
move_score(self, color, depth, level, order, mv) ==
    IF depth = 0 THEN [end |-> "ok", score |-> eval(self, color)]
    ELSE negated(find_best(move_piece(self, mv[1], mv[2]).self, Not(color),
                           depth - 1, level + 1, order))

\* lines 41-61: the loops over the moves
search_moves(self, color, depth, level, order, todo) ==
    pick(todo,
         [i \in DOMAIN todo |-> move_score(self, color, depth, level, order, todo[i])],
         1, << <<Pos(0, 0), Pos(0, 0)>>, Score_MIN >>)

\* find_best once Board::moves has returned `found`
find_best_with(self, color, depth, level, order, found) ==
    IF found.end # "ok" THEN [end |-> found.end, move |-> None, score |-> 0]
    ELSE IF found.total_moves = 0 THEN no_moves(self, color)
    ELSE search_moves(self, color, depth, level, order, iteration(found.all_moves, order))

find_best(self, color, depth, level, order) ==
    find_best_with(self, color, depth, level, order, Board_moves(self, color))

(***************************************************************************)
(* board.rs: Castle::from_fen and Board::from_fen.  A &str is the sequence *)
(* of its characters, each a string of one character.                      *)
(***************************************************************************)
Digits == <<"0", "1", "2", "3", "4", "5", "6", "7", "8", "9">>

Upper == <<"A", "B", "C", "D", "E", "F", "G", "H", "I", "J", "K", "L", "M",
           "N", "O", "P", "Q", "R", "S", "T", "U", "V", "W", "X", "Y", "Z">>

Lower == <<"a", "b", "c", "d", "e", "f", "g", "h", "i", "j", "k", "l", "m",
           "n", "o", "p", "q", "r", "s", "t", "u", "v", "w", "x", "y", "z">>

\* where c stands in a run of characters (0 when it is not in it)
index_in(run_of, c) ==
    IF \E i \in DOMAIN run_of : run_of[i] = c
    THEN CHOOSE i \in DOMAIN run_of : run_of[i] = c
    ELSE 0

is_digit(c) == index_in(Digits, c) # 0

is_ascii_uppercase(c) == index_in(Upper, c) # 0

is_ascii_lowercase(c) == index_in(Lower, c) # 0

\* c as u8, for the characters the inputs are written with
as_u8(c) ==
    CASE is_digit(c) -> 47 + index_in(Digits, c)
      [] is_ascii_uppercase(c) -> 64 + index_in(Upper, c)
      [] is_ascii_lowercase(c) -> 96 + index_in(Lower, c)
      [] c = " " -> 32
      [] c = "+" -> 43
      [] c = "-" -> 45
      [] c = "/" -> 47
      [] OTHER -> 63

to_ascii_lowercase(c) == IF is_ascii_uppercase(c) THEN Lower[index_in(Upper, c)] ELSE c

\* str::split(' '): the sections between the spaces, empty ones included
RECURSIVE split(_)
split(s) ==
    IF \A i \in DOMAIN s : s[i] # " " THEN <<s>>
    ELSE LET i == CHOOSE i \in DOMAIN s : s[i] = " " /\ \A j \in 1 .. (i - 1) : s[j] # " "
         IN  <<SubSeq(s, 1, i - 1)>> \o split(SubSeq(s, i + 1, Len(s)))

\* str::parse::<u32>(): an optional '+', then one digit or more, the value
\* within 32 bits
RECURSIVE value_of(_, _)
value_of(s, acc) ==
    IF s = <<>> THEN acc ELSE value_of(Tail(s), acc * 10 + index_in(Digits, Head(s)) - 1)

parse_u32(s) ==
    LET digits == IF s # <<>> /\ Head(s) = "+" THEN Tail(s) ELSE s
    IN  /\ digits # <<>>
        /\ \A i \in DOMAIN digits : is_digit(digits[i])
        /\ value_of(digits, 0) \div (2 ^ 16) < 2 ^ 16

\* the loop of Castle::from_fen over the characters left
RECURSIVE castle_chars(_, _)
castle_chars(s, found) ==
    IF s = <<>> THEN found
    ELSE CASE to_ascii_lowercase(Head(s)) = "k" ->
                  castle_chars(Tail(s), [found EXCEPT !.black.short = TRUE])
           [] to_ascii_lowercase(Head(s)) = "q" ->
                  castle_chars(Tail(s), [found EXCEPT !.black.long = TRUE])
           [] to_ascii_lowercase(Head(s)) = "K" ->
                  castle_chars(Tail(s), [found EXCEPT !.white.short = TRUE])
           [] to_ascii_lowercase(Head(s)) = "Q" ->
                  castle_chars(Tail(s), [found EXCEPT !.white.long = TRUE])
           [] OTHER -> [found EXCEPT !.some = FALSE]

\* Castle::from_fen: [some, white, black]
Castle_from_fen(fen) ==
    IF fen = <<"-">>
    THEN [some |-> TRUE, white |-> Castle(FALSE, FALSE), black |-> Castle(FALSE, FALSE)]
    ELSE castle_chars(fen, [some |-> TRUE, white |-> Castle(FALSE, FALSE),
                            black |-> Castle(FALSE, FALSE)])

\* from_fen's piece(c)
fen_piece(c) ==
    CASE c = "k" -> "King"
      [] c = "p" -> "Pawn"
      [] c = "n" -> "Knight"
      [] c = "b" -> "Bishop"
      [] c = "r" -> "Rook"
      [] c = "q" -> "Queen"
      [] OTHER -> NoPiece

\* from_fen's pos(s): a and b are each the first character of s, taken from
\* an iterator of their own, and so is the character that must not be there
fen_pos(s) ==
    IF s = <<>> THEN NoPos
    ELSE IF \/ s # <<>>
            \/ as_u8(s[1]) < as_u8("a") \/ as_u8(s[1]) > as_u8("h")
            \/ as_u8(s[1]) < as_u8("1") \/ as_u8(s[1]) > as_u8("8")
         THEN NoPos
         ELSE Pos(as_u8(s[1]) - as_u8("a"), as_u8(s[1]) - as_u8("1"))

\* the loop of lines 108-128 over the characters left of the placement; file
\* is a u8 and stays below 256 on every input explored
RECURSIVE place(_, _)
place(pieces, at) ==
    IF pieces = <<>> \/ ~at.some THEN at
    ELSE CASE Head(pieces) = "/" ->
                  IF at.rank - 1 < 0 THEN [at EXCEPT !.some = FALSE]
                  ELSE place(Tail(pieces), [at EXCEPT !.file = 0, !.rank = at.rank - 1])
           [] is_digit(Head(pieces)) ->
                  place(Tail(pieces),
                        [at EXCEPT !.file = at.file + as_u8(Head(pieces)) - as_u8("0")])
           [] is_ascii_lowercase(Head(pieces)) \/ is_ascii_uppercase(Head(pieces)) ->
                  IF at.file > 7 \/ fen_piece(to_ascii_lowercase(Head(pieces))) = NoPiece
                  THEN [at EXCEPT !.some = FALSE]
                  ELSE place(Tail(pieces),
                             [at EXCEPT !.board[Pos(at.file, at.rank)] =
                                            << fen_piece(to_ascii_lowercase(Head(pieces))),
                                               IF is_ascii_lowercase(Head(pieces))
                                                  THEN "Black" ELSE "White" >>,
                                        !.file = at.file + 1])
           [] OTHER -> [at EXCEPT !.some = FALSE]

\* what from_fen returns when it returns None
NoFen == [some |-> FALSE]

\* Board::from_fen: NoFen, or [some, self, turn]
from_fen(fen) ==
    LET sections == split(fen)
        placed == place(sections[1],
                        [some |-> TRUE, board |-> [p \in Squares |-> None],
                         file |-> 0, rank |-> 7])
        castle == Castle_from_fen(sections[3])
        turn_is == IF sections[2] = <<"w">> THEN "White" ELSE "Black"
        moved_pawn == IF sections[4] = <<"-">> THEN NoPos
                      ELSE Pos(PX(fen_pos(sections[4])),
                               PY(fen_pos(sections[4]))
                                  + (IF turn_is = "White" THEN 1 ELSE 0 - 1))
    IN  IF ~placed.some THEN NoFen
        ELSE IF Len(sections) < 2 \/ sections[2] \notin {<<"w">>, <<"b">>} THEN NoFen
        ELSE IF Len(sections) < 3 \/ ~castle.some THEN NoFen
        ELSE IF Len(sections) < 4 THEN NoFen
        ELSE IF sections[4] # <<"-">> /\ fen_pos(sections[4]) = NoPos THEN NoFen
        ELSE IF Len(sections) < 5 \/ ~parse_u32(sections[5]) THEN NoFen
        ELSE IF Len(sections) < 6 \/ ~parse_u32(sections[6]) THEN NoFen
        ELSE IF Len(sections) > 6 THEN NoFen
        ELSE [ some |-> TRUE,
               self |-> [ board |-> placed.board, moved_pawn |-> moved_pawn,
                          white_castle |-> castle.white, black_castle |-> castle.black ],
               turn |-> turn_is ]

(***************************************************************************)
(* main.rs: Game.  game.rs holds a second Game whose play_move differs     *)
(* only in where the captured piece comes from; its two capture lists are  *)
(* kept beside those of main.rs.                                           *)
(***************************************************************************)
VARIABLES
    board,            \* Game.board: [board, moved_pawn, white_castle, black_castle]
    turn,             \* Game.turn
    possible_moves,   \* Game.possible_moves
    white,            \* Game.white.taken_pieces (main.rs)
    black,            \* Game.black.taken_pieces (main.rs)
    lib_white,        \* Game.white.taken_pieces (game.rs)
    lib_black,        \* Game.black.taken_pieces (game.rs)
    end,              \* what the last compute_moves returned
    run,              \* "playing", "ended", "overflow" or "panic"
    setup,            \* the position the run started from
    ply,              \* play_move calls since then
    last,             \* the last play_move call: its arguments and the game before
    two_steps,        \* history: the two-square pawn advances whose pawn still stands
                      \* where it landed, each with whether a reply has been played
    fen,              \* main's fen: the -f argument, as characters
    parsed,           \* what Board::from_fen(&fen) has returned, once it has
    depth,            \* movalyzer's depth
    met_first,        \* the (from, to) the loops of find_best have met first
    best,             \* what find_best has returned at level 0, once it has
    server,           \* the relay: its board, turn and whether it is still relaying
    clients,          \* per colour, the client: its Game, cursor, moving, Remote.color
    wire,             \* per colour, the socket to the server (up), the socket from it
                      \* (down), the channel to the game loop (chan), the reading
                      \* thread, and whether the connection is lost
    relay             \* history: the moves committed, accepted, forwarded and
                      \* delivered, the turn of the client at each delivery, the moves
                      \* each board has had applied, and the confirm key a client has
                      \* just handled

vars == <<board, turn, possible_moves, white, black, lib_white, lib_black,
          end, run, setup, ply, last, two_steps, fen, parsed, depth, met_first, best,
          server, clients, wire, relay>>

\* no networked game is being played
NoNet == server = <<>> /\ clients = <<>> /\ wire = <<>> /\ relay = <<>>

NoEnd == "None"

Winner(color) == IF color = "White" THEN "WinnerWhite" ELSE "WinnerBlack"

Draw == "Draw"

NoLast ==
    [ from |-> NoPos, to |-> NoPos, before |-> starting_position, turn |-> "White",
      white |-> <<>>, black |-> <<>>, lib_white |-> <<>>, lib_black |-> <<>>,
      two_steps |-> {} ]

\* history: the two-square advances still standing after move_piece(from, to)
\* has turned the board `before` into `after`
two_steps_after(known, before, after, from, to) ==
    { [r EXCEPT !.replied = TRUE] :
        r \in { r \in known : after.board[r.pawn] = before.board[r.pawn] } }
    \cup
    (IF /\ before.board[from] # None
        /\ before.board[from][1] = "Pawn"
        /\ PX(from) = PX(to)
        /\ (PY(to) = PY(from) + 2 \/ PY(to) = PY(from) - 2)
        THEN {[pawn |-> to, skipped |-> Pos(PX(from), (PY(from) + PY(to)) \div 2),
               replied |-> FALSE]}
        ELSE {})

\* compute_moves asking Board::moves for the colour that is not to move
compute_moves_other_colour(g) ==
    LET king_pos == find_king(g.board, g.turn)
        computed(found, theirs) ==
            IF found.end # "ok" THEN [g EXCEPT !.run = found.end]
            ELSE IF found.total_moves # 0 THEN [g EXCEPT !.possible_moves = found.all_moves]
            ELSE IF king_pos = NoPos THEN [g EXCEPT !.run = "panic", !.possible_moves = <<>>]
            ELSE IF theirs.end # "ok"
            THEN [g EXCEPT !.run = theirs.end, !.possible_moves = <<>>]
            ELSE [g EXCEPT !.possible_moves = <<>>,
                           !.run = "ended",
                           !.end = IF \E p \in DOMAIN theirs.all_moves :
                                       king_pos \in theirs.all_moves[p]
                                      THEN Winner(Not(g.turn)) ELSE Draw]
    IN  computed(Board_moves(g.board, Not(g.turn)), Board_moves(g.board, Not(g.turn)))

\* compute_moves reporting the opponent as winner whenever no move is left
compute_moves_always_winner(g) ==
    LET king_pos == find_king(g.board, g.turn)
        computed(found, theirs) ==
            IF found.end # "ok" THEN [g EXCEPT !.run = found.end]
            ELSE IF found.total_moves # 0 THEN [g EXCEPT !.possible_moves = found.all_moves]
            ELSE IF king_pos = NoPos THEN [g EXCEPT !.run = "panic", !.possible_moves = <<>>]
            ELSE IF theirs.end # "ok"
            THEN [g EXCEPT !.run = theirs.end, !.possible_moves = <<>>]
            ELSE [g EXCEPT !.possible_moves = <<>>,
                           !.run = "ended",
                           !.end = Winner(Not(g.turn))]
    IN  computed(Board_moves(g.board, g.turn), Board_moves(g.board, Not(g.turn)))

\* Game::compute_moves on a game record g: the fields it writes and its result
compute_moves(g) ==
    LET king_pos == find_king(g.board, g.turn)
        computed(found, theirs) ==
            IF found.end # "ok" THEN [g EXCEPT !.run = found.end]
            ELSE IF found.total_moves # 0 THEN [g EXCEPT !.possible_moves = found.all_moves]
            ELSE IF king_pos = NoPos THEN [g EXCEPT !.run = "panic", !.possible_moves = <<>>]
            ELSE IF theirs.end # "ok"
            THEN [g EXCEPT !.run = theirs.end, !.possible_moves = <<>>]
            ELSE [g EXCEPT !.possible_moves = <<>>,
                           !.run = "ended",
                           !.end = IF \E p \in DOMAIN theirs.all_moves :
                                       king_pos \in theirs.all_moves[p]
                                      THEN Winner(Not(g.turn)) ELSE Draw]
    IN  computed(Board_moves(g.board, g.turn), Board_moves(g.board, Not(g.turn)))

\* Game::new; the result of its compute_moves call is dropped
Game_new(b, color, name) ==
    LET dropped(g) == IF g.run = "ended" THEN [g EXCEPT !.run = "playing", !.end = NoEnd] ELSE g
    IN  dropped(compute_moves(
                [ board |-> b, turn |-> color, possible_moves |-> <<>>,
                  white |-> <<>>, black |-> <<>>, lib_white |-> <<>>, lib_black |-> <<>>,
                  end |-> NoEnd, run |-> "playing", setup |-> name, ply |-> 0,
                  last |-> NoLast, two_steps |-> {} ]))

\* Game::play_move of main.rs (lines 200-213), with the capture lists of
\* Game::play_move of game.rs (lines 53-64) beside it
play_move(g, from, to) ==
    LET taken == g.board.board[to]
        moved == move_piece(g.board, from, to)
        noted == [g EXCEPT !.last = [from |-> from, to |-> to, before |-> g.board,
                                     turn |-> g.turn, white |-> g.white,
                                     black |-> g.black, lib_white |-> g.lib_white,
                                     lib_black |-> g.lib_black,
                                     two_steps |-> g.two_steps],
                           !.ply = g.ply + 1,
                           !.two_steps = two_steps_after(g.two_steps, g.board, moved.self,
                                                         from, to)]
    IN  IF taken # None /\ taken[2] = g.turn THEN [noted EXCEPT !.run = "panic"]
        ELSE IF moved.panic THEN [noted EXCEPT !.run = "panic"]
        ELSE compute_moves(
               [noted EXCEPT
                  !.white = IF taken # None /\ g.turn = "White" THEN Append(@, taken[1]) ELSE @,
                  !.black = IF taken # None /\ g.turn # "White" THEN Append(@, taken[1]) ELSE @,
                  !.lib_white = IF moved.taken # NoPiece /\ g.turn = "White"
                                   THEN Append(@, moved.taken) ELSE @,
                  !.lib_black = IF moved.taken # NoPiece /\ g.turn # "White"
                                   THEN Append(@, moved.taken) ELSE @,
                  !.board = moved.self,
                  !.turn = IF g.turn = "White" THEN "Black" ELSE "White"])

Game == [ board |-> board, turn |-> turn, possible_moves |-> possible_moves,
          white |-> white, black |-> black, lib_white |-> lib_white,
          lib_black |-> lib_black, end |-> end, run |-> run, setup |-> setup,
          ply |-> ply, last |-> last, two_steps |-> two_steps ]

Is(g) ==
    /\ board = g.board
    /\ turn = g.turn
    /\ possible_moves = g.possible_moves
    /\ white = g.white
    /\ black = g.black
    /\ lib_white = g.lib_white
    /\ lib_black = g.lib_black
    /\ end = g.end
    /\ run = g.run
    /\ setup = g.setup
    /\ ply = g.ply
    /\ last = g.last
    /\ two_steps = g.two_steps

Becomes(g) ==
    /\ board' = g.board
    /\ turn' = g.turn
    /\ possible_moves' = g.possible_moves
    /\ white' = g.white
    /\ black' = g.black
    /\ lib_white' = g.lib_white
    /\ lib_black' = g.lib_black
    /\ end' = g.end
    /\ run' = g.run
    /\ setup' = g.setup
    /\ ply' = g.ply
    /\ last' = g.last
    /\ two_steps' = g.two_steps

(***************************************************************************)
(* The positions a run starts from: the starting position, positions       *)
(* reached from it by playing the moves of a line through play_move, and   *)
(* boards as from_fen yields them for the -f argument (no en-passant       *)
(* target and no castling right of White: pos() accepts no square and      *)
(* Castle::from_fen lower-cases before it matches 'K' and 'Q').            *)
(***************************************************************************)
\* a square by the number of its file (a = 1 .. h = 8) and its rank: e4 is Sq(5, 4)
Sq(file, rank) == Pos(file - 1, rank - 1)

\* the move from one square to another: e2-e4 is Mv(5, 2, 5, 4)
Mv(file1, rank1, file2, rank2) == <<Sq(file1, rank1), Sq(file2, rank2)>>

\* the moves of a line, each made with the confirm key on a legal destination
\* of the selected piece (main.rs, lines 399-410): a move that is not in the
\* legal-move set is not played and the line ends "illegal"
RECURSIVE play_line(_, _)
play_line(gm, line) ==
    IF line = <<>> THEN gm
    ELSE IF /\ gm.run = "playing"
            /\ Head(line)[1] \in DOMAIN gm.possible_moves
            /\ Head(line)[2] \in gm.possible_moves[Head(line)[1]]
         THEN play_line(play_move(gm, Head(line)[1], Head(line)[2]), Tail(line))
         ELSE [gm EXCEPT !.run = "illegal"]

\* a board as from_fen builds it: the placement, and the rights of Black
fen_board(placed, black_castle) ==
    [ board |-> [p \in Squares |->
                    IF \E x \in placed : x[1] = p
                       THEN (CHOOSE x \in placed : x[1] = p)[2] ELSE None],
      moved_pawn |-> NoPos,
      white_castle |-> Castle(FALSE, FALSE),
      black_castle |-> black_castle ]

\* k1r4R/pp6/N3N3/8/8/8/8/2K5 w - - 0 1
PinnedMate ==
    fen_board({ <<Sq(1, 8), <<"King", "Black">> >>, <<Sq(3, 8), <<"Rook", "Black">> >>,
                <<Sq(8, 8), <<"Rook", "White">> >>, <<Sq(1, 7), <<"Pawn", "Black">> >>,
                <<Sq(2, 7), <<"Pawn", "Black">> >>, <<Sq(1, 6), <<"Knight", "White">> >>,
                <<Sq(5, 6), <<"Knight", "White">> >>, <<Sq(3, 1), <<"King", "White">> >> },
              Castle(FALSE, FALSE))

\* r3k2r/4P3/8/8/8/8/8/4K3 b kq - 0 1
PawnGuard ==
    fen_board({ <<Sq(1, 8), <<"Rook", "Black">> >>, <<Sq(5, 8), <<"King", "Black">> >>,
                <<Sq(8, 8), <<"Rook", "Black">> >>, <<Sq(5, 7), <<"Pawn", "White">> >>,
                <<Sq(5, 1), <<"King", "White">> >> },
              Castle(TRUE, TRUE))

\* 1n2k3/P7/8/8/8/8/8/4K3 w - - 0 1
PromoteCapture ==
    fen_board({ <<Sq(2, 8), <<"Knight", "Black">> >>, <<Sq(5, 8), <<"King", "Black">> >>,
                <<Sq(1, 7), <<"Pawn", "White">> >>, <<Sq(5, 1), <<"King", "White">> >> },
              Castle(FALSE, FALSE))

\* k7/8/1K6/8/8/8/8/2Q5 w - - 0 1
QueenStalemate ==
    fen_board({ <<Sq(1, 8), <<"King", "Black">> >>, <<Sq(2, 6), <<"King", "White">> >>,
                <<Sq(3, 1), <<"Queen", "White">> >> },
              Castle(FALSE, FALSE))

\* R7/P7/8/8/8/8/k7/4K3 w - - 0 1
BlockedPawn ==
    fen_board({ <<Sq(1, 8), <<"Rook", "White">> >>, <<Sq(1, 7), <<"Pawn", "White">> >>,
                <<Sq(1, 2), <<"King", "Black">> >>, <<Sq(5, 1), <<"King", "White">> >> },
              Castle(FALSE, FALSE))

Setups ==
    { \* the starting position
      [name |-> "start", board |-> starting_position, turn |-> "White", line |-> <<>>],
      \* 1.Nf3 a6 2.g3 a5 3.Bg2 a4: White may castle short
      [name |-> "white_short", board |-> starting_position, turn |-> "White",
       line |-> << Mv(7, 1, 6, 3), Mv(1, 7, 1, 6), Mv(7, 2, 7, 3), Mv(1, 6, 1, 5),
                   Mv(6, 1, 7, 2), Mv(1, 5, 1, 4) >>],
      \* 1.d4 a6 2.Nc3 a5 3.Bf4 a4 4.Qd2 h6: White may castle long
      [name |-> "white_long", board |-> starting_position, turn |-> "White",
       line |-> << Mv(4, 2, 4, 4), Mv(1, 7, 1, 6), Mv(2, 1, 3, 3), Mv(1, 6, 1, 5),
                   Mv(3, 1, 6, 4), Mv(1, 5, 1, 4), Mv(4, 1, 4, 2), Mv(8, 7, 8, 6) >>],
      \* 1.e4 d5: a pawn of each side one step from the other
      [name |-> "one_step", board |-> starting_position, turn |-> "White",
       line |-> << Mv(5, 2, 5, 4), Mv(4, 7, 4, 5) >>],
      \* 1.e4 a6 2.e5 d5: Black has just advanced two squares beside the pawn on e5
      [name |-> "two_step", board |-> starting_position, turn |-> "White",
       line |-> << Mv(5, 2, 5, 4), Mv(1, 7, 1, 6), Mv(5, 4, 5, 5), Mv(4, 7, 4, 5) >>],
      \* 1.Nf3 Nf6 2.g3 g6: each side one bishop move from an empty king's wing
      [name |-> "both_wings", board |-> starting_position, turn |-> "White",
       line |-> << Mv(7, 1, 6, 3), Mv(7, 8, 6, 6), Mv(7, 2, 7, 3), Mv(7, 7, 7, 6) >>],
      \* 1.e4 a6 2.e5 d5 3.Nf3: White has declined to capture the pawn on d5
      [name |-> "declined", board |-> starting_position, turn |-> "White",
       line |-> << Mv(5, 2, 5, 4), Mv(1, 7, 1, 6), Mv(5, 4, 5, 5), Mv(4, 7, 4, 5),
                   Mv(7, 1, 6, 3) >>],
      [name |-> "pinned_mate", board |-> PinnedMate, turn |-> "White", line |-> <<>>],
      [name |-> "pawn_guard", board |-> PawnGuard, turn |-> "Black", line |-> <<>>],
      [name |-> "promote_capture", board |-> PromoteCapture, turn |-> "White", line |-> <<>>],
      [name |-> "queen_stalemate", board |-> QueenStalemate, turn |-> "White", line |-> <<>>],
      [name |-> "blocked_pawn", board |-> BlockedPawn, turn |-> "White", line |-> <<>>],
      \* 1.h4 a6 2.Rh3 a5 3.Ra3 b6: the rook of h1 stands on the a-file
      [name |-> "rook_on_a_file", board |-> starting_position, turn |-> "White",
       line |-> << Mv(8, 2, 8, 4), Mv(1, 7, 1, 6), Mv(8, 1, 8, 3), Mv(1, 6, 1, 5),
                   Mv(8, 3, 1, 3), Mv(2, 7, 2, 6) >>],
      \* 1.b3 g6 2.Bb2 a6 3.Bxh8: the rook of h8 is taken where it stood
      [name |-> "rook_taken", board |-> starting_position, turn |-> "White",
       line |-> << Mv(2, 2, 2, 3), Mv(7, 7, 7, 6), Mv(3, 1, 2, 2), Mv(1, 7, 1, 6),
                   Mv(2, 2, 8, 8) >>],
      \* 1.c4 e5 2.c5 Ke7 3.c6 Kd6: the black king stands before its pawn on d7
      [name |-> "king_before_pawn", board |-> starting_position, turn |-> "White",
       line |-> << Mv(3, 2, 3, 4), Mv(5, 7, 5, 5), Mv(3, 4, 3, 5), Mv(5, 8, 5, 7),
                   Mv(3, 5, 3, 6), Mv(5, 7, 4, 6) >>] }

\* the game of a setup: Game::new, then the line played move by move; the
\* count of plies starts after it
setup_game(s) == [play_line(Game_new(s.board, s.turn, s.name), s.line) EXCEPT !.ply = 0]

InitFrom(names) ==
    \E s \in Setups :
        /\ s.name \in names
        /\ \E g \in {setup_game(s)} : g.run = "playing" /\ Is(g)
        /\ fen = <<>>
        /\ parsed = <<>>
        /\ depth = 0
        /\ met_first = <<NoPos, NoPos>>
        /\ best = <<>>
        /\ NoNet

\* the runs that are played from the starting position only
InitLines ==
    InitFrom({"start", "one_step", "two_step", "declined", "rook_on_a_file", "rook_taken",
              "king_before_pawn"})

Init == InitFrom({ s.name : s \in Setups } \ {"rook_on_a_file", "rook_taken", "king_before_pawn"})

\* the runs on which the legal-move filter is checked for both colours
InitFilter ==
    InitFrom({"start", "white_short", "two_step", "pawn_guard", "pinned_mate",
              "promote_capture"})

\* the runs on which move_piece is called with every (from, to) of the board
InitMovePiece ==
    InitFrom({"start", "white_long", "both_wings", "pawn_guard", "promote_capture",
              "queen_stalemate", "blocked_pawn", "rook_on_a_file"})

\* the confirm key on a legal destination of the selected piece (main.rs,
\* lines 399-410), which calls play_move
PlayMove ==
    /\ run = "playing"
    /\ ply < MaxPly
    /\ \E from \in DOMAIN possible_moves :
          \E to \in possible_moves[from] :
              Becomes(play_move(Game, from, to))
    /\ UNCHANGED <<fen, parsed, depth, met_first, best, server, clients, wire, relay>>

Next == PlayMove

Spec == Init /\ [][Next]_vars

SpecFilter == InitFilter /\ [][Next]_vars

SpecMovePiece == InitMovePiece /\ [][Next]_vars

SpecLines == InitLines /\ [][Next]_vars

(***************************************************************************)
(* main.rs, lines 34-36: the -f argument goes through Board::from_fen; a   *)
(* None ends the program in expect's panic.  The arguments explored are    *)
(* six fields (or five, or seven) joined by single spaces.                 *)
(***************************************************************************)
\* the characters of the parts with sep between them
RECURSIVE join(_, _)
join(parts, sep) ==
    IF Len(parts) = 1 THEN parts[1]
    ELSE parts[1] \o <<sep>> \o join(Tail(parts), sep)

FenEmptyRanks == <<"8", "/", "8", "/", "8", "/", "8", "/", "8", "/", "8">>

FenPlacements ==
    { \* 4k3/8/8/8/8/8/8/4K3
      <<"4", "k", "3", "/">> \o FenEmptyRanks \o <<"/", "4", "K", "3">>,
      \* r3k2r/8/8/8/8/8/8/R3K2R
      <<"r", "3", "k", "2", "r", "/">> \o FenEmptyRanks \o <<"/", "R", "3", "K", "2", "R">>,
      \* 4k3/8/8/8/4P3/8/8/4K3
      <<"4", "k", "3", "/", "8", "/", "8", "/", "8", "/", "4", "P", "3", "/", "8", "/", "8",
        "/", "4", "K", "3">>,
      \* 4k3/8/8/3p4/8/8/8/4K3
      <<"4", "k", "3", "/", "8", "/", "8", "/", "3", "p", "4", "/", "8", "/", "8", "/", "8",
        "/", "4", "K", "3">>,
      \* 4k3/8/8/4K3: four ranks
      <<"4", "k", "3", "/", "8", "/", "8", "/", "4", "K", "3">>,
      \* 4k2/8/8/8/8/8/8/4K3: a rank of seven squares
      <<"4", "k", "2", "/">> \o FenEmptyRanks \o <<"/", "4", "K", "3">>,
      \* 4k3/8/8/8/8/8/8/4K9: a digit past the end of the rank
      <<"4", "k", "3", "/">> \o FenEmptyRanks \o <<"/", "4", "K", "9">>,
      \* 4k3k/8/8/8/8/8/8/4K3: a piece past the end of the rank
      <<"4", "k", "3", "k", "/">> \o FenEmptyRanks \o <<"/", "4", "K", "3">>,
      \* 4k3/8/8/8/8/8/8/8/4K3: nine ranks
      <<"4", "k", "3", "/", "8", "/">> \o FenEmptyRanks \o <<"/", "4", "K", "3">>,
      \* 4x3/8/8/8/8/8/8/4K3: an unknown piece letter
      <<"4", "x", "3", "/">> \o FenEmptyRanks \o <<"/", "4", "K", "3">>,
      \* 4k3/8/8/8/8/8/8/4?3: a character that is no letter, digit or slash
      <<"4", "k", "3", "/">> \o FenEmptyRanks \o <<"/", "4", "?", "3">>,
      \* the empty placement
      <<>> }

FenTurns == { <<"w">>, <<"b">>, <<"x">> }

FenCastles ==
    { <<"-">>, <<"K", "Q">>, <<"k", "q">>, <<"K", "Q", "k", "q">>, <<"K", "x">>, <<>> }

FenSquares == { <<"-">>, <<"e", "3">>, <<"d", "6">>, <<"e", "9">> }

\* the fields after the en-passant square
FenCounters ==
    { <<<<"0">>, <<"1">>>>, <<<<"+", "0">>, <<"1">>>>, <<<<"x">>, <<"1">>>>, <<<<"0">>>>,
      <<<<"0">>, <<"1">>, <<"2">>>> }

FenInputs ==
    { join(<<f[1], f[2], f[3], f[4]>> \o f[5], " ") :
        f \in FenPlacements \X FenTurns \X FenCastles \X FenSquares \X FenCounters }

\* the program before main has parsed its arguments
NoGame ==
    [ board |-> starting_position, turn |-> "White", possible_moves |-> <<>>,
      white |-> <<>>, black |-> <<>>, lib_white |-> <<>>, lib_black |-> <<>>,
      end |-> NoEnd, run |-> "args", setup |-> "fen", ply |-> 0,
      last |-> NoLast, two_steps |-> {} ]

InitFen ==
    /\ Is(NoGame)
    /\ fen \in FenInputs
    /\ parsed = <<>>
    /\ depth = 0
    /\ met_first = <<NoPos, NoPos>>
    /\ best = <<>>
    /\ NoNet

\* let (board, color) = Board::from_fen(&fen).expect(..)
ParseFen ==
    /\ run = "args"
    /\ parsed' = <<from_fen(fen)>>
    /\ IF from_fen(fen).some
          THEN /\ board' = from_fen(fen).self
               /\ turn' = from_fen(fen).turn
               /\ run' = "parsed"
          ELSE /\ run' = "panic"
               /\ UNCHANGED <<board, turn>>
    /\ UNCHANGED <<possible_moves, white, black, lib_white, lib_black, end, setup, ply,
                   last, two_steps, fen, depth, met_first, best, server, clients, wire, relay>>

SpecFen == InitFen /\ [][ParseFen]_vars

\* the (from, to) pairs of a legal-move mapping
pairs(all_moves) == UNION { { <<p, t>> : t \in all_moves[p] } : p \in DOMAIN all_moves }

(***************************************************************************)
(* ai.rs: movalyzer(board, turn, depth) on a thread of its own.  The       *)
(* boards searched are small, so that every move of a search is explored.  *)
(***************************************************************************)
\* the greatest depth movalyzer is called with
MaxDepth == 1

\* k7/2P5/1K6/8/8/8/8/8: Black to move has no move and is not attacked;
\* White to move mates by promoting
AiPromoteMate ==
    fen_board({ <<Sq(1, 8), <<"King", "Black">> >>, <<Sq(2, 6), <<"King", "White">> >>,
                <<Sq(3, 7), <<"Pawn", "White">> >> },
              Castle(FALSE, FALSE))

\* k7/2P5/2K5/8/8/8/8/8: White to move stalemates Black with Kb6
AiStalemateInOne ==
    fen_board({ <<Sq(1, 8), <<"King", "Black">> >>, <<Sq(3, 6), <<"King", "White">> >>,
                <<Sq(3, 7), <<"Pawn", "White">> >> },
              Castle(FALSE, FALSE))

\* k7/1Q6/1K6/8/8/8/8/8: Black to move is mated
AiMate ==
    fen_board({ <<Sq(1, 8), <<"King", "Black">> >>, <<Sq(2, 6), <<"King", "White">> >>,
                <<Sq(2, 7), <<"Queen", "White">> >> },
              Castle(FALSE, FALSE))

\* 7k/8/8/8/8/8/1p6/K7: a pawn to take, or to be promoted
AiPawn ==
    fen_board({ <<Sq(8, 8), <<"King", "Black">> >>, <<Sq(2, 2), <<"Pawn", "Black">> >>,
                <<Sq(1, 1), <<"King", "White">> >> },
              Castle(FALSE, FALSE))

\* 8/8/8/8/8/8/8/K7: no black king
AiLoneKing ==
    fen_board({ <<Sq(1, 1), <<"King", "White">> >> }, Castle(FALSE, FALSE))

AiBoards ==
    { AiPromoteMate, AiStalemateInOne, AiMate, AiPawn, AiLoneKing, PromoteCapture }

InitAi ==
    /\ \E b \in AiBoards, color \in Color :
          Is([NoGame EXCEPT !.board = b, !.turn = color, !.run = "idle", !.setup = "ai"])
    /\ depth \in 0 .. MaxDepth
    /\ met_first = <<NoPos, NoPos>>
    /\ best = <<>>
    /\ fen = <<>>
    /\ parsed = <<>>
    /\ NoNet

\* movalyzer's thread: find_best(&board, turn, depth, 0).0.unwrap(), the
\* loops of find_best meeting the moves in one of the orders they can
Movalyzer ==
    /\ run = "idle"
    /\ \E first \in {<<NoPos, NoPos>>} \cup pairs(Board_moves(board, turn).all_moves) :
          /\ met_first' = first
          /\ \E found \in {find_best(board, turn, depth, 0, first)} :
                /\ best' = <<found>>
                /\ run' = IF found.end # "ok" THEN found.end
                          ELSE IF found.move = None THEN "panic"
                          ELSE "searched"
    /\ UNCHANGED <<board, turn, possible_moves, white, black, lib_white, lib_black, end,
                   setup, ply, last, two_steps, fen, parsed, depth, server, clients, wire,
                   relay>>

SpecAi == InitAi /\ [][Movalyzer]_vars

(***************************************************************************)
(* The networked game.  server.rs: game, the relay of one pair of players, *)
(* p1 playing White and p2 Black.  main.rs: the loop of game with a        *)
(* Remote, and the thread that hands what the socket delivers to the       *)
(* loop's channel.  A process that has ended has closed its sockets; a     *)
(* connection can also be lost on the way.                                 *)
(***************************************************************************)
\* the most moves the players of one game commit
MaxMoves == 3

\* server::Move for from -> to, and the two positions of a Move
Move(from, to) == [x1 |-> PX(from), y1 |-> PY(from), x2 |-> PX(to), y2 |-> PY(to)]

move_from(m) == Pos(m.x1, m.y1)

move_to(m) == Pos(m.x2, m.y2)

\* server_game, had it stopped a game that ended before forwarding the move
server_game_stops_before_forwarding(s, m, sent_ok) ==
    LET moved == move_piece(s.board, move_from(m), move_to(m))
        applied == [s EXCEPT !.board = moved.self, !.turn = Not(s.turn)]
        king_pos == find_king(moved.self, Not(s.turn))
        stopped(how) == [server |-> [applied EXCEPT !.run = how], forwarded |-> <<>>]
        forward(game_end) ==
            IF ~sent_ok THEN stopped("failed")
            ELSE [server |-> IF game_end = NoEnd THEN applied
                             ELSE [applied EXCEPT !.run = "finished", !.end = game_end],
                  forwarded |-> IF game_end = NoEnd THEN <<m>> ELSE <<>>]
        relayed(found, theirs) ==
            IF found.end # "ok" THEN stopped(found.end)
            ELSE IF found.total_moves # 0 THEN forward(NoEnd)
            ELSE IF king_pos = NoPos THEN stopped("failed")
            ELSE IF theirs.end # "ok" THEN stopped(theirs.end)
            ELSE forward(IF \E p \in DOMAIN theirs.all_moves : king_pos \in theirs.all_moves[p]
                            THEN Winner(s.turn) ELSE Draw)
    IN  IF moved.panic THEN [server |-> [s EXCEPT !.run = "panic"], forwarded |-> <<>>]
        ELSE relayed(Board_moves(moved.self, Not(s.turn)), Board_moves(moved.self, s.turn))

\* one pass of the loop of server::game on the server record s, for the Move
\* m it has read from the mover; sent_ok is whether the forwarding write
\* succeeds.  The result is the server afterwards and what it has forwarded.
server_game(s, m, sent_ok) ==
    LET moved == move_piece(s.board, move_from(m), move_to(m))
        applied == [s EXCEPT !.board = moved.self, !.turn = Not(s.turn)]
        king_pos == find_king(moved.self, Not(s.turn))
        stopped(how) == [server |-> [applied EXCEPT !.run = how], forwarded |-> <<>>]
        forward(game_end) ==
            IF ~sent_ok THEN stopped("failed")
            ELSE [server |-> IF game_end = NoEnd THEN applied
                             ELSE [applied EXCEPT !.run = "finished", !.end = game_end],
                  forwarded |-> <<m>>]
        relayed(found, theirs) ==
            IF found.end # "ok" THEN stopped(found.end)
            ELSE IF found.total_moves # 0 THEN forward(NoEnd)
            ELSE IF king_pos = NoPos THEN stopped("failed")
            ELSE IF theirs.end # "ok" THEN stopped(theirs.end)
            ELSE forward(IF \E p \in DOMAIN theirs.all_moves : king_pos \in theirs.all_moves[p]
                            THEN Winner(s.turn) ELSE Draw)
    IN  IF moved.panic THEN [server |-> [s EXCEPT !.run = "panic"], forwarded |-> <<>>]
        ELSE relayed(Board_moves(moved.self, Not(s.turn)), Board_moves(moved.self, s.turn))

\* the loop of game on Ok(m) of remote.server.try_recv()
remote_move(cl, m) ==
    LET got(played) == [cl EXCEPT !.game = played]
    IN  IF cl.game.turn = cl.color THEN [cl EXCEPT !.game.run = "left"]
        ELSE got(play_move(cl.game, move_from(m), move_to(m)))

\* confirm_key without the test that it is the turn of the Remote's colour
confirm_key_on_any_turn(cl, send_ok) ==
    LET g == cl.game
        done(played) ==
            [client |-> [cl EXCEPT !.game = played,
                                   !.moving = IF played.run = "playing" THEN NoPos ELSE @],
             sent |-> <<Move(cl.moving, cl.cursor)>>]
        only(changed) == [client |-> changed, sent |-> <<>>]
    IN  IF cl.moving = NoPos
        THEN IF g.board.board[cl.cursor] # None /\ g.board.board[cl.cursor][2] = g.turn
                THEN only([cl EXCEPT !.moving = cl.cursor])
                ELSE only(cl)
        ELSE IF cl.moving \notin DOMAIN g.possible_moves
        THEN only([cl EXCEPT !.game.run = "panic"])
        ELSE IF cl.cursor \notin g.possible_moves[cl.moving]
        THEN only([cl EXCEPT !.moving = NoPos])
        ELSE IF ~send_ok THEN only([cl EXCEPT !.game.run = "failed"])
        ELSE done(play_move(g, cl.moving, cl.cursor))

\* the loop of game on the confirm key, with a Remote; send_ok is whether
\* send succeeds.  The result is the client afterwards and what it has sent.
confirm_key(cl, send_ok) ==
    LET g == cl.game
        done(played) ==
            [client |-> [cl EXCEPT !.game = played,
                                   !.moving = IF played.run = "playing" THEN NoPos ELSE @],
             sent |-> <<Move(cl.moving, cl.cursor)>>]
        only(changed) == [client |-> changed, sent |-> <<>>]
    IN  IF g.turn # cl.color THEN only([cl EXCEPT !.moving = NoPos])
        ELSE IF cl.moving = NoPos
        THEN IF g.board.board[cl.cursor] # None /\ g.board.board[cl.cursor][2] = g.turn
                THEN only([cl EXCEPT !.moving = cl.cursor])
                ELSE only(cl)
        ELSE IF cl.moving \notin DOMAIN g.possible_moves
        THEN only([cl EXCEPT !.game.run = "panic"])
        ELSE IF cl.cursor \notin g.possible_moves[cl.moving]
        THEN only([cl EXCEPT !.moving = NoPos])
        ELSE IF ~send_ok THEN only([cl EXCEPT !.game.run = "failed"])
        ELSE done(play_move(g, cl.moving, cl.cursor))

\* 4k3/4p3/8/8/8/8/4P3/4K3 w - - 0 1
NetPawns ==
    fen_board({ <<Sq(5, 8), <<"King", "Black">> >>, <<Sq(5, 7), <<"Pawn", "Black">> >>,
                <<Sq(5, 2), <<"Pawn", "White">> >>, <<Sq(5, 1), <<"King", "White">> >> },
              Castle(FALSE, FALSE))

\* 8/2pp4/2Pk4/8/8/8/8/K7 w - - 0 1: the black king stands before its pawn on d7
NetKingBeforePawn ==
    fen_board({ <<Sq(3, 7), <<"Pawn", "Black">> >>, <<Sq(4, 7), <<"Pawn", "Black">> >>,
                <<Sq(3, 6), <<"Pawn", "White">> >>, <<Sq(4, 6), <<"King", "Black">> >>,
                <<Sq(1, 1), <<"King", "White">> >> },
              Castle(FALSE, FALSE))

\* the boards the three processes are started on, the side to move, and the
\* squares the players take their cursors to
NetGames ==
    { [name |-> "net_pawns", board |-> NetPawns, turn |-> "White",
       squares |-> {Sq(5, 2), Sq(5, 4), Sq(5, 5), Sq(5, 6), Sq(5, 7)}],
      [name |-> "net_king_before_pawn", board |-> NetKingBeforePawn, turn |-> "White",
       squares |-> {Sq(3, 6), Sq(4, 7), Sq(3, 7)}],
      \* k7/2P5/1K6/8/8/8/8/8 w - - 0 1: c8 mates, Ka6 stalemates
      [name |-> "net_promote_mate", board |-> AiPromoteMate, turn |-> "White",
       squares |-> {Sq(3, 7), Sq(3, 8), Sq(2, 6), Sq(1, 6)}],
      \* k7/2P5/1K6/8/8/8/8/8 b - - 0 1: Black, to move, has no legal move
      [name |-> "net_no_move", board |-> AiPromoteMate, turn |-> "Black",
       squares |-> {Sq(1, 8), Sq(2, 6)}] }

\* the squares of the game that is being played
net_squares == (CHOOSE n \in NetGames : n.name = relay.name).squares

\* client_new with a Remote of White whatever GameInfo.is_black says
client_new_always_white(n, color) ==
    [ game |-> Game_new(n.board, n.turn, n.name), cursor |-> Pos(0, 0), moving |-> NoPos,
      color |-> "White" ]

\* the client of `color` after Game::new(vec2![0, 0], .., board, turn), with
\* its Remote
client_new(n, color) ==
    [ game |-> Game_new(n.board, n.turn, n.name), cursor |-> Pos(0, 0), moving |-> NoPos,
      color |-> color ]

NoKey == <<>>

InitNetFrom(names) ==
    /\ Is([NoGame EXCEPT !.run = "net", !.setup = "net"])
    /\ fen = <<>>
    /\ parsed = <<>>
    /\ depth = 0
    /\ met_first = <<NoPos, NoPos>>
    /\ best = <<>>
    /\ \E n \in NetGames :
          /\ n.name \in names
          /\ server = [board |-> n.board, turn |-> n.turn, run |-> "relaying", end |-> NoEnd]
          /\ clients = [c \in Color |-> client_new(n, c)]
          /\ relay = [ name |-> n.name, committed |-> <<>>, accepted |-> <<>>,
                       forwarded |-> <<>>, delivered |-> [c \in Color |-> <<>>],
                       turns |-> [c \in Color |-> <<>>],
                       applied |-> [w \in Color \cup {"server"} |-> <<>>],
                       keyed |-> [c \in Color |-> NoKey] ]
    /\ wire = [ up |-> [c \in Color |-> <<>>], down |-> [c \in Color |-> <<>>],
                chan |-> [c \in Color |-> <<>>], reader |-> [c \in Color |-> "reading"],
                lost |-> [c \in Color |-> FALSE] ]

InitNet == InitNetFrom({ n.name : n \in NetGames })

\* the games in which a move ends the game
InitNetEnd == InitNetFrom({"net_promote_mate"})

\* the variables of the game without a Remote, which a networked game leaves alone
local == <<board, turn, possible_moves, white, black, lib_white, lib_black, end, run, setup,
           ply, last, two_steps, fen, parsed, depth, met_first, best>>

\* the game loop of the client of color c is running
playing(c) == clients[c].game.run = "playing"

\* remote.server.try_recv() of the client of color c gives Err(Empty)
no_remote_move(c) == playing(c) /\ wire.chan[c] = <<>> /\ wire.reader[c] = "reading"

\* the connection of the client of color c carries what is written to it
connected(c) == ~wire.lost[c] /\ playing(c) /\ server.run = "relaying"

\* history: the pass of the loop the client of color c has just made was for
\* the confirm key, on the client `before`, with send_ok for what send gives
\* and `sent` for what the pass has written to the socket
confirm_of(c, send_ok, sent) == [before |-> clients[c], send_ok |-> send_ok, sent |-> sent]

\* arrow keys (main.rs, lines 387-390), as many as take the cursor to sq;
\* an arrow key writes the cursor and nothing else
CursorKeys(c) ==
    /\ no_remote_move(c)
    /\ \E sq \in net_squares \ {clients[c].cursor} :
          clients' = [clients EXCEPT ![c].cursor = sq]
    /\ relay' = [relay EXCEPT !.keyed[c] = NoKey]
    /\ UNCHANGED <<local, server, wire>>

\* the confirm key
ConfirmKey(c) ==
    /\ no_remote_move(c)
    /\ Len(relay.committed) < MaxMoves
    /\ \E send_ok \in (IF connected(c) THEN {TRUE} ELSE BOOLEAN) :
          \E r \in {confirm_key(clients[c], send_ok)} :
              /\ clients' = [clients EXCEPT ![c] = r.client]
              /\ wire' = [wire EXCEPT !.up[c] = IF connected(c) THEN @ \o r.sent ELSE @]
              /\ relay' = [relay EXCEPT !.keyed[c] = <<confirm_of(c, send_ok, r.sent)>>,
                                        !.committed = @ \o [i \in DOMAIN r.sent |-> <<c, r.sent[i]>>],
                                        !.applied[c] =
                                            IF r.client.game.board # clients[c].game.board
                                               THEN @ \o r.sent ELSE @]
    /\ UNCHANGED <<local, server>>

\* Key::Escape
EscapeKey(c) ==
    /\ no_remote_move(c)
    /\ clients[c].moving # NoPos
    /\ clients' = [clients EXCEPT ![c].moving = NoPos]
    /\ relay' = [relay EXCEPT !.keyed[c] = NoKey]
    /\ UNCHANGED <<local, server, wire>>

\* Ok(m) of remote.server.try_recv()
RemoteMove(c) ==
    /\ playing(c)
    /\ wire.chan[c] # <<>>
    /\ clients' = [clients EXCEPT ![c] = remote_move(clients[c], Head(wire.chan[c]))]
    /\ wire' = [wire EXCEPT !.chan[c] = Tail(@)]
    /\ relay' = [relay EXCEPT !.delivered[c] = Append(@, Head(wire.chan[c])),
                              !.turns[c] = Append(@, clients[c].game.turn),
                              !.applied[c] =
                                  IF clients'[c].game.board # clients[c].game.board
                                     THEN Append(@, Head(wire.chan[c])) ELSE @,
                              !.keyed[c] = NoKey]
    /\ UNCHANGED <<local, server>>

\* Err(TryRecvError::Disconnected) of remote.server.try_recv()
ServerDisconnected(c) ==
    /\ playing(c)
    /\ wire.chan[c] = <<>>
    /\ wire.reader[c] = "stopped"
    /\ clients' = [clients EXCEPT ![c].game.run = "disconnected"]
    /\ relay' = [relay EXCEPT !.keyed[c] = NoKey]
    /\ UNCHANGED <<local, server, wire>>

\* the thread of main that reads the socket (main.rs, lines 74-90): a Move
\* goes to the channel, the end of the stream or an error ends the thread
Reader(c) ==
    /\ playing(c)
    /\ wire.reader[c] = "reading"
    /\ IF wire.down[c] # <<>>
          THEN wire' = [wire EXCEPT !.chan[c] = Append(@, Head(wire.down[c])),
                                    !.down[c] = Tail(@)]
          ELSE /\ wire.lost[c] \/ server.run # "relaying"
               /\ wire' = [wire EXCEPT !.reader[c] = "stopped"]
    /\ UNCHANGED <<local, server, clients, relay>>

\* one pass of the loop of server::game: the read from the mover's socket
\* gives a Move, or fails because the stream has ended
ServerGame ==
    /\ server.run = "relaying"
    /\ LET mover == server.turn
           other == Not(server.turn)
       IN  IF wire.up[mover] # <<>>
           THEN \E sent_ok \in (IF connected(other) THEN {TRUE} ELSE BOOLEAN) :
                  \E r \in {server_game(server, Head(wire.up[mover]), sent_ok)} :
                     /\ server' = r.server
                     /\ wire' = [wire EXCEPT !.up[mover] = Tail(@),
                                             !.down[other] = IF connected(other)
                                                                THEN @ \o r.forwarded ELSE @]
                     /\ relay' = [relay EXCEPT
                                    !.accepted = Append(@, [color |-> mover, turn |-> server.turn,
                                                            move |-> Head(wire.up[mover])]),
                                    !.forwarded = @ \o [i \in DOMAIN r.forwarded |->
                                                          [to |-> other, move |-> r.forwarded[i]]],
                                    !.applied["server"] =
                                        IF r.server.board # server.board
                                           THEN Append(@, Head(wire.up[mover])) ELSE @]
           ELSE /\ wire.lost[mover] \/ ~playing(mover)
                /\ server' = [server EXCEPT !.run = "failed"]
                /\ UNCHANGED <<wire, relay>>
    /\ UNCHANGED <<local, clients>>

\* the connection of the client of color c breaks, and what it carried is gone
ConnectionLost(c) ==
    /\ \A k \in Color : ~wire.lost[k]
    /\ playing(c)
    /\ server.run = "relaying"
    /\ wire' = [wire EXCEPT !.lost[c] = TRUE, !.up[c] = <<>>, !.down[c] = <<>>]
    /\ UNCHANGED <<local, server, clients, relay>>

NextNet ==
    \/ \E c \in Color : CursorKeys(c)
    \/ \E c \in Color : ConfirmKey(c)
    \/ \E c \in Color : EscapeKey(c)
    \/ \E c \in Color : RemoteMove(c)
    \/ \E c \in Color : ServerDisconnected(c)
    \/ \E c \in Color : Reader(c)
    \/ \E c \in Color : ConnectionLost(c)
    \/ ServerGame

SpecNet == InitNet /\ [][NextNet]_vars

\* the read of server::game returns: a move of the mover has arrived, or the
\* mover's stream is at its end
server_reads ==
    /\ server.run = "relaying"
    /\ wire.up[server.turn] # <<>> \/ wire.lost[server.turn] \/ ~playing(server.turn)

\* remote.server.try_recv() of the client of color c returns Ok
client_receives(c) == playing(c) /\ wire.chan[c] # <<>>

\* the loop of server::game blocks in its read, the reading thread of a client
\* blocks in its recv, and the loop of a client asks its channel on every
\* pass, at least every 10 ms: none of them waits for ever once it can step.
\* For ServerGame and RemoteMove the weak fairness WF_vars(A), which is
\* []<>~ENABLED <<A>>_vars \/ []<><<A>>_vars, is written out with the guard of
\* the action for its ENABLED: each of them takes from a queue, so it changes
\* vars wherever its guard holds.
SpecNetFair ==
    /\ InitNetEnd
    /\ [][NextNet]_vars
    /\ []<>~server_reads \/ []<><<ServerGame>>_vars
    /\ \A c \in Color :
          /\ WF_vars(Reader(c))
          /\ []<>~client_receives(c) \/ []<><<RemoteMove(c)>>_vars

(***************************************************************************)
(* The claims.                                                             *)
(***************************************************************************)
\* a play_move call has been made and has applied its move to the board
Played == last.from # NoPos /\ run # "panic"

\* move_piece(from, to) on a copy of `self` leaves the king of `color` attacked
\* by the other colour (or does not yield a board with that king at all)
leaves_king_attacked(self, from, to, color) ==
    LET moved == move_piece(self, from, to)
    IN  \/ moved.panic
        \/ find_king(moved.self, color) = NoPos
        \/ threatens(moved.self, find_king(moved.self, color), Not(color)) # "no"

\* C1: no (from, to) pair of the mapping returned by Board::moves(c), for
\* either colour c, leaves c's own king attacked: after move_piece(from, to)
\* on a copy of the board, threatens(find_king(c), opposite(c)) is false.
\* For the side to move the mapping is the one compute_moves got from
\* Board::moves and stored; for the other side it is computed here.
C1_NoLegalMoveExposesKing ==
    /\ run = "playing" =>
          \A mv \in pairs(possible_moves) :
              ~leaves_king_attacked(board, mv[1], mv[2], turn)
    /\ run \in {"playing", "ended"} =>
          LET found == Board_moves(board, Not(turn))
          IN  found.end = "ok" =>
                \A mv \in pairs(found.all_moves) :
                    ~leaves_king_attacked(board, mv[1], mv[2], Not(turn))

\* a play_move has left a piece of the side to move with a candidate that the
\* filter removed and another that it kept
C1_Witness ==
    /\ Played
    /\ run = "playing"
    /\ \E from \in DOMAIN possible_moves :
          /\ possible_moves[from] # {}
          /\ \E to \in moves(board, board.board[from][1], from, turn, {}) :
                /\ to \notin possible_moves[from]
                /\ leaves_king_attacked(board, from, to, turn)

\* C2: after play_move, when the side now to move has no legal move and its
\* king's square is attacked by the opponent in the sense of the threat
\* oracle (threatens, self-check ignored), the Game reports Winner(opponent),
\* never Draw.
C2_CheckmateGivesWinner ==
    (Played /\ run = "ended") =>
        (threatens(board, find_king(board, turn), Not(turn)) = "yes"
            => end = Winner(Not(turn)))

\* the four castling moves
Castlings ==
    { [color |-> "White", wing |-> "short", king_from |-> Sq(5, 1), king_to |-> Sq(7, 1),
       rook_from |-> Sq(8, 1), rook_to |-> Sq(6, 1)],
      [color |-> "White", wing |-> "long", king_from |-> Sq(5, 1), king_to |-> Sq(3, 1),
       rook_from |-> Sq(1, 1), rook_to |-> Sq(4, 1)],
      [color |-> "Black", wing |-> "short", king_from |-> Sq(5, 8), king_to |-> Sq(7, 8),
       rook_from |-> Sq(8, 8), rook_to |-> Sq(6, 8)],
      [color |-> "Black", wing |-> "long", king_from |-> Sq(5, 8), king_to |-> Sq(3, 8),
       rook_from |-> Sq(1, 8), rook_to |-> Sq(4, 8)] }

holds_right(self, color, wing) ==
    IF wing = "short" THEN can_castle(self, color).short ELSE can_castle(self, color).long

\* the last move_piece call was the castling move cs, made with its right held
Castled(cs) ==
    /\ Played
    /\ last.from = cs.king_from
    /\ last.to = cs.king_to
    /\ last.before.board[last.from] = <<"King", cs.color>>
    /\ holds_right(last.before, cs.color, cs.wing)

\* C3: each of the four castling moves, applied by move_piece while the right
\* is held, leaves the king on the g- (c-) file square, the rook on the f-
\* (d-) file square, and the king's home square and the rook's corner empty.
C3_CastlingRelocatesRook ==
    \A cs \in Castlings :
        Castled(cs) =>
            /\ board.board[cs.king_to] = <<"King", cs.color>>
            /\ board.board[cs.rook_to] = <<"Rook", cs.color>>
            /\ board.board[cs.king_from] = None
            /\ board.board[cs.rook_from] = None

\* C4: computing Board::moves(color) or Board::threatens(square, color)
\* terminates on every position reached by legal moves: no play_move ends in
\* the stack overflow of moves and threatens calling each other, and neither
\* call overflows on the board of any state.
C4_MovesAndThreatensTerminate ==
    /\ run # "overflow"
    /\ run # "panic" =>
         \A color \in Color :
            /\ Board_moves(board, color).end # "overflow"
            /\ \A pos \in Squares : threatens(board, pos, color) # "overflow"

\* C5: from the starting position Board::moves(White) holds exactly 20 pairs,
\* 16 of pawns and 4 of knights, and after each of these 20 moves is applied
\* with move_piece Board::moves(Black) holds exactly 20 pairs.
C5_TwentyMovesEach ==
    /\ (setup = "start" /\ ply = 0) =>
          LET found == Board_moves(board, "White")
              ps == pairs(found.all_moves)
          IN  /\ found.end = "ok"
              /\ found.total_moves = 20
              /\ Cardinality(ps) = 20
              /\ possible_moves = found.all_moves
              /\ Cardinality({ mv \in ps : board.board[mv[1]] = <<"Pawn", "White">> }) = 16
              /\ Cardinality({ mv \in ps : board.board[mv[1]] = <<"Knight", "White">> }) = 4
              /\ \A mv \in ps :
                    LET replies == Board_moves(move_piece(board, mv[1], mv[2]).self, "Black")
                    IN  /\ replies.end = "ok"
                        /\ replies.total_moves = 20
                        /\ Cardinality(pairs(replies.all_moves)) = 20
    /\ (setup = "start" /\ ply = 1) =>
          /\ run = "playing"
          /\ turn = "Black"
          /\ Cardinality(pairs(possible_moves)) = 20

\* one of White's first moves has been applied and Black's 20 replies stand
C5_Witness ==
    /\ setup = "start"
    /\ ply = 1
    /\ last.before = starting_position
    /\ Cardinality(pairs(possible_moves)) = 20

\* the pawns that move_piece(from, to) removes from a square other than `to`
pawns_removed_elsewhere(self, from, to) ==
    { q \in Squares \ {from, to} :
        /\ self.board[q] # None
        /\ self.board[q][1] = "Pawn"
        /\ move_piece(self, from, to).self.board[q] = None }

\* the pawn on q advanced two squares on the ply just played
JustAdvancedTwo(known, q) == \E r \in known : r.pawn = q /\ ~r.replied

\* C6: the en-passant capability is set only by a two-square pawn advance: no
\* legal move removes a pawn from a square other than its destination, and no
\* move_piece call has done so, unless that pawn advanced two squares on the
\* immediately preceding ply (so not after a one-square advance or a capture).
C6_EnPassantOnlyAfterTwoSquares ==
    /\ run = "playing" =>
          \A mv \in pairs(possible_moves) :
             \A q \in pawns_removed_elsewhere(board, mv[1], mv[2]) :
                JustAdvancedTwo(two_steps, q)
    /\ Played =>
          \A q \in Squares \ {last.from, last.to} :
             ( /\ last.before.board[q] # None
               /\ last.before.board[q][1] = "Pawn"
               /\ board.board[q] = None )
             => JustAdvancedTwo(last.two_steps, q)

\* the pawns of `color` beside the square q, on its rank
beside(self, q, color) ==
    { p \in Squares : /\ self.board[p] = <<"Pawn", color>>
                      /\ PY(p) = PY(q)
                      /\ (PX(p) = PX(q) + 1 \/ PX(p) = PX(q) - 1) }

\* C7: immediately after a pawn advances two squares, every enemy pawn beside
\* it has the skipped square among its candidates and, unless the move leaves
\* its own king attacked, among its legal destinations; move_piece to that
\* square removes the advanced pawn, leaves the capturing pawn on the skipped
\* square, clears the en-passant state and returns Pawn.
C7_EnPassantAfterTwoSquares ==
    /\ run = "playing" =>
          \A r \in { r \in two_steps : ~r.replied } :
             \A p \in beside(board, r.pawn, turn) :
                LET moved == move_piece(board, p, r.skipped)
                IN  /\ r.skipped \in moves(board, "Pawn", p, turn, {})
                    /\ \/ r.skipped \in possible_moves[p]
                       \/ leaves_king_attacked(board, p, r.skipped, turn)
                    /\ ~moved.panic
                    /\ moved.taken = "Pawn"
                    /\ moved.self.board[r.pawn] = None
                    /\ moved.self.board[r.skipped] = <<"Pawn", turn>>
                    /\ moved.self.board[p] = None
                    /\ moved.self.moved_pawn = NoPos
    /\ Played =>
          \A r \in { r \in last.two_steps : ~r.replied } :
             (last.to = r.skipped /\ last.from \in beside(last.before, r.pawn, last.turn))
             => /\ board.board[r.pawn] = None
                /\ board.board[r.skipped] = <<"Pawn", last.turn>>
                /\ board.board[last.from] = None
                /\ board.moved_pawn = NoPos

\* the en-passant capture of a pawn that had just advanced two squares has been played
C7_Witness ==
    /\ Played
    /\ \E r \in last.two_steps :
          /\ ~r.replied
          /\ last.to = r.skipped
          /\ last.from \in beside(last.before, r.pawn, last.turn)
          /\ board.board[r.pawn] = None

\* C8: the en-passant opportunity expires after one ply: once a reply other
\* than the capture has been played to a two-square advance, no legal-move
\* set of any later turn holds a capture of that pawn onto the square it
\* skipped.
C8_EnPassantExpires ==
    run = "playing" =>
        \A r \in { r \in two_steps : r.replied } :
           \A mv \in pairs(possible_moves) :
              ~ ( /\ mv[2] = r.skipped
                  /\ board.board[mv[1]] = <<"Pawn", turn>>
                  /\ move_piece(board, mv[1], mv[2]).self.board[r.pawn] = None )

\* the capture was declined and the pawn that could have made it is to move,
\* still beside the advanced pawn, with the skipped square still empty
C8_Witness ==
    /\ Played
    /\ run = "playing"
    /\ \E r \in two_steps :
          /\ r.replied
          /\ board.board[r.pawn] = <<"Pawn", Not(turn)>>
          /\ board.board[r.skipped] = None
          /\ beside(board, r.pawn, turn) # {}

\* the squares seen from `cur` in one direction, up to the first occupied one
RECURSIVE seen(_, _, _, _)
seen(self, cur, dx, dy) ==
    IF ~inside(PX(cur) + dx, PY(cur) + dy) THEN {}
    ELSE LET next == Pos(PX(cur) + dx, PY(cur) + dy)
         IN  IF self.board[next] = None THEN {next} \cup seen(self, next, dx, dy)
             ELSE {next}

straight == { <<0 - 1, 0>>, <<1, 0>>, <<0, 0 - 1>>, <<0, 1>> }

diagonal == { <<0 - 1, 0 - 1>>, <<0 - 1, 1>>, <<1, 0 - 1>>, <<1, 1>> }

\* the piece on p attacks the square pos, by the rules of chess
attacks(self, p, pos) ==
    LET piece == self.board[p][1]
        color == self.board[p][2]
        dx == PX(pos) - PX(p)
        dy == PY(pos) - PY(p)
    IN  CASE piece = "Pawn" ->
                 dy = (IF color = "White" THEN 1 ELSE 0 - 1) /\ (dx = 1 \/ dx = 0 - 1)
          [] piece = "Knight" -> <<dx, dy>> \in knight_offsets
          [] piece = "King" ->
                 pos # p /\ dx \in {0 - 1, 0, 1} /\ dy \in {0 - 1, 0, 1}
          [] piece = "Rook" -> \E v \in straight : pos \in seen(self, p, v[1], v[2])
          [] piece = "Bishop" -> \E v \in diagonal : pos \in seen(self, p, v[1], v[2])
          [] OTHER -> \E v \in straight \cup diagonal : pos \in seen(self, p, v[1], v[2])

attacked(self, pos, color) ==
    \E p \in Squares :
        self.board[p] # None /\ self.board[p][2] = color /\ attacks(self, p, pos)

\* C9: castling is absent from a side's legal moves whenever a square the king
\* stands on, passes through or lands on is attacked by an opposing piece,
\* also by an enemy pawn standing diagonally in front of an empty square.
C9_NoCastlingThroughAttack ==
    run = "playing" =>
        \A cs \in Castlings :
            ( /\ cs.color = turn
              /\ board.board[cs.king_from] = <<"King", turn>>
              /\ \E pos \in {cs.king_from, cs.rook_to, cs.king_to} :
                    attacked(board, pos, Not(turn)) )
            => cs.king_to \notin possible_moves[cs.king_from]

\* the squares from which the last play_move removed a piece of the opponent
removed_by_last ==
    { q \in Squares : /\ last.before.board[q] # None
                      /\ last.before.board[q][2] = Not(last.turn)
                      /\ board.board[q] # last.before.board[q] }

\* the capture lists have grown by exactly the piece removed, or not at all
listed(white_before, black_before, white_after, black_after) ==
    LET mine_before == IF last.turn = "White" THEN white_before ELSE black_before
        mine_after == IF last.turn = "White" THEN white_after ELSE black_after
        theirs_before == IF last.turn = "White" THEN black_before ELSE white_before
        theirs_after == IF last.turn = "White" THEN black_after ELSE white_after
    IN  /\ theirs_after = theirs_before
        /\ IF removed_by_last = {} THEN mine_after = mine_before
           ELSE \E q \in removed_by_last :
                   /\ removed_by_last = {q}
                   /\ mine_after = Append(mine_before, last.before.board[q][1])

\* C10: every play_move that removes an opposing piece from the board appends
\* exactly that piece's kind to the mover's capture list (ordinary capture,
\* en-passant capture, capture by a promoting pawn), and a play_move that
\* removes none appends nothing; of the Game of main.rs and of that of game.rs.
C10_CapturesAreListed ==
    Played =>
        /\ listed(last.white, last.black, white, black)
        /\ listed(last.lib_white, last.lib_black, lib_white, lib_black)

\* C11: a play_move call that returns has flipped turn once, has left the
\* board that move_piece(from, to) gives, has returned a GameEnd exactly when
\* Board::moves(new turn) of that board holds no move, and otherwise has
\* stored that mapping as possible_moves.
C11_PlayMoveRecomputes ==
    (Played /\ run \in {"playing", "ended"}) =>
        LET found == Board_moves(board, turn)
        IN  /\ turn = Not(last.turn)
            /\ board = move_piece(last.before, last.from, last.to).self
            /\ found.end = "ok"
            /\ (end # NoEnd) <=> (run = "ended")
            /\ (run = "ended") <=> (pairs(found.all_moves) = {})
            /\ run = "playing" => possible_moves = found.all_moves

\* a play_move has returned no GameEnd and the mapping it stored differs from
\* the one of the new side to move on the board before the move
C11_Witness ==
    /\ Played
    /\ run = "playing"
    /\ pairs(possible_moves) # {}
    /\ possible_moves # Board_moves(last.before, turn).all_moves

\* C12: after play_move, when the side now to move has no legal move and no
\* opposing piece attacks its king's square, the Game reports Draw; the only
\* winner it ever reports is the opponent of the side to move, and only when
\* that side's king is attacked.
C12_StalemateGivesDraw ==
    (Played /\ run = "ended") =>
        /\ end \in {Draw, Winner(Not(turn))}
        /\ ~attacked(board, find_king(board, turn), Not(turn)) => end = Draw
        /\ end = Winner(Not(turn)) => attacked(board, find_king(board, turn), Not(turn))

\* a play_move has left the side to move without a legal move and with its
\* king not attacked
C12_Witness ==
    /\ Played
    /\ run = "ended"
    /\ pairs(Board_moves(board, turn).all_moves) = {}
    /\ ~attacked(board, find_king(board, turn), Not(turn))
    /\ threatens(board, find_king(board, turn), Not(turn)) = "no"

\* the castling rights a board still holds, as (colour, direction) pairs
rights(self) ==
    { r \in {"White", "Black"} \X {"short", "long"} :
        CASE r = <<"White", "short">> -> self.white_castle.short
          [] r = <<"White", "long">> -> self.white_castle.long
          [] r = <<"Black", "short">> -> self.black_castle.short
          [] OTHER -> self.black_castle.long }

\* C13: castling rights are only ever revoked.  The move_piece call of the
\* last play_move has left no right true that was false before it, and no
\* move_piece(from, to) call on the present board, legal or not, for any
\* occupied from, would make a right true that is false now.
C13_RightsOnlyRevoked ==
    /\ Played => rights(board) \subseteq rights(last.before)
    /\ \A from \in { p \in Squares : board.board[p] # None } :
          \A to \in Squares :
              rights(move_piece(board, from, to).self) \subseteq rights(board)

\* a king whose side had already lost a right has been moved by play_move,
\* and the right is still lost
C13_Witness ==
    /\ Played
    /\ last.before.board[last.from] # None
    /\ last.before.board[last.from][1] = "King"
    /\ \E d \in {"short", "long"} :
          /\ <<last.turn, d>> \notin rights(last.before)
          /\ <<last.turn, d>> \notin rights(board)

\* the farthest rank of a colour's pawns (y coordinate)
farthest(color) == IF color = "White" THEN 7 ELSE 0

\* the squares of `self` on which a pawn stands on its farthest rank
pawns_on_farthest(self) ==
    { p \in { Pos(x, y) : x \in 0 .. 7, y \in {0, 7} } :
        /\ self.board[p] # None
        /\ self.board[p][1] = "Pawn"
        /\ PY(p) = farthest(self.board[p][2]) }

\* move_piece(from, to) has turned `before` into `after` by promoting the
\* pawn of `color` that stood on from
promoted(before, after, color, from, to) ==
    /\ after.board[to] = <<"Queen", color>>
    /\ after.board[from] = None
    /\ after.moved_pawn = NoPos
    /\ \A p \in Squares \ {from, to} : after.board[p] = before.board[p]

\* C14: no pawn stands on its farthest rank.  The pawn that the last
\* play_move has moved onto rank 8 (White) or rank 1 (Black) has become a
\* Queen of its colour there, its origin is empty and the en-passant state
\* is cleared; and every move_piece(from, to) call on the present board,
\* legal or not, leaves no pawn on its farthest rank and promotes in that
\* way a pawn it moves there.
C14_PromotionIsImmediate ==
    /\ pawns_on_farthest(board) = {}
    /\ (/\ Played
        /\ last.before.board[last.from] # None
        /\ last.before.board[last.from][1] = "Pawn"
        /\ PY(last.to) = farthest(last.turn))
          => promoted(last.before, board, last.turn, last.from, last.to)
    /\ \A from \in { p \in Squares : board.board[p] # None } :
          \A to \in Squares \ {from} :
              LET moved == move_piece(board, from, to)
              IN  /\ pawns_on_farthest(moved.self) = {}
                  /\ (/\ board.board[from][1] = "Pawn"
                      /\ PY(to) = farthest(board.board[from][2]))
                        => /\ ~moved.panic
                           /\ promoted(board, moved.self, board.board[from][2], from, to)

\* play_move has moved a pawn onto its farthest rank and a Queen stands there
C14_Witness ==
    /\ Played
    /\ last.before.board[last.from] = <<"Pawn", last.turn>>
    /\ PY(last.to) = farthest(last.turn)
    /\ board.board[last.to] = <<"Queen", last.turn>>
    /\ board.board[last.from] = None

\* C15: on the present board, move_piece(from, to) with a piece on from and
\* a piece of the same colour on to fails fatally and leaves both squares as
\* they were, whatever the kind of the piece on from.
C15_OwnPieceDestinationPanics ==
    \A from \in { p \in Squares : board.board[p] # None } :
        \A to \in { p \in Squares \ {from} : /\ board.board[p] # None
                                             /\ board.board[p][2] = board.board[from][2] } :
            LET moved == move_piece(board, from, to)
            IN  /\ moved.panic
                /\ moved.self.board[from] = board.board[from]
                /\ moved.self.board[to] = board.board[to]

\* the parts of s between the occurrences of sep
RECURSIVE fields(_, _)
fields(s, sep) ==
    IF \A i \in DOMAIN s : s[i] # sep THEN <<s>>
    ELSE LET i == CHOOSE i \in DOMAIN s : s[i] = sep /\ \A j \in 1 .. (i - 1) : s[j] # sep
         IN  <<SubSeq(s, 1, i - 1)>> \o fields(SubSeq(s, i + 1, Len(s)), sep)

\* the squares a rank of a placement field describes
RECURSIVE rank_width(_)
rank_width(r) ==
    IF r = <<>> THEN 0
    ELSE (IF is_digit(Head(r)) THEN index_in(Digits, Head(r)) - 1 ELSE 1) + rank_width(Tail(r))

\* a well-formed position string: exactly 8 ranks of exactly 8 squares, made
\* of the digits 1-8 and the piece letters; w or b; - or letters of KQkq, each
\* at most once; - or a square of rank 3 or 6; two counters of digits
well_formed(s) ==
    /\ Len(fields(s, " ")) = 6
    /\ LET f == fields(s, " ")
           ranks == fields(f[1], "/")
       IN  /\ Len(ranks) = 8
           /\ \A i \in DOMAIN ranks :
                 /\ rank_width(ranks[i]) = 8
                 /\ \A j \in DOMAIN ranks[i] :
                       \/ ranks[i][j] \in {"1", "2", "3", "4", "5", "6", "7", "8"}
                       \/ to_ascii_lowercase(ranks[i][j]) \in {"p", "n", "b", "r", "q", "k"}
           /\ f[2] \in { <<"w">>, <<"b">> }
           /\ \/ f[3] = <<"-">>
              \/ /\ f[3] # <<>>
                 /\ \A j \in DOMAIN f[3] : f[3][j] \in {"K", "Q", "k", "q"}
                 /\ \A j, k \in DOMAIN f[3] : f[3][j] = f[3][k] => j = k
           /\ \/ f[4] = <<"-">>
              \/ /\ Len(f[4]) = 2
                 /\ f[4][1] \in {"a", "b", "c", "d", "e", "f", "g", "h"}
                 /\ f[4][2] \in {"3", "6"}
           /\ \A n \in {5, 6} : f[n] # <<>> /\ \A j \in DOMAIN f[n] : is_digit(f[n][j])

\* the letter of a cell of the board
letter_of(cell) ==
    LET lower == CASE cell[1] = "King" -> "k"
                   [] cell[1] = "Pawn" -> "p"
                   [] cell[1] = "Knight" -> "n"
                   [] cell[1] = "Bishop" -> "b"
                   [] cell[1] = "Rook" -> "r"
                   [] OTHER -> "q"
    IN  IF cell[2] = "Black" THEN lower ELSE Upper[index_in(Lower, lower)]

\* rank y of a board from file x on, written after `empty` empty squares
RECURSIVE write_rank(_, _, _, _)
write_rank(self, y, x, empty) ==
    IF x > 7 THEN (IF empty > 0 THEN <<Digits[empty + 1]>> ELSE <<>>)
    ELSE IF self.board[Pos(x, y)] = None THEN write_rank(self, y, x + 1, empty + 1)
    ELSE (IF empty > 0 THEN <<Digits[empty + 1]>> ELSE <<>>)
         \o <<letter_of(self.board[Pos(x, y)])>>
         \o write_rank(self, y, x + 1, 0)

\* the square of a position as two characters
write_square(p) == <<Lower[PX(p) + 1], Digits[PY(p) + 2]>>

\* the first four fields of the position string of a Board and a side to
\* move: placement, side, castling rights, en-passant target (the square
\* from_fen would have read for the moved_pawn it stores)
regenerate(self, color) ==
    << join([i \in 1 .. 8 |-> write_rank(self, 8 - i, 0, 0)], "/"),
       IF color = "White" THEN <<"w">> ELSE <<"b">>,
       IF rights(self) = {} THEN <<"-">>
       ELSE (IF self.white_castle.short THEN <<"K">> ELSE <<>>)
            \o (IF self.white_castle.long THEN <<"Q">> ELSE <<>>)
            \o (IF self.black_castle.short THEN <<"k">> ELSE <<>>)
            \o (IF self.black_castle.long THEN <<"q">> ELSE <<>>),
       IF self.moved_pawn = NoPos THEN <<"-">>
       ELSE write_square(Pos(PX(self.moved_pawn),
                             PY(self.moved_pawn) - (IF color = "White" THEN 1 ELSE 0 - 1))) >>

\* C16: from_fen of a well-formed position string returns a Board and a side
\* to move from which the same placement, side to move, castling rights and
\* en-passant target are regenerated (the counters are left out).
C16_FenRoundTrip ==
    (parsed # <<>> /\ well_formed(fen)) =>
        /\ parsed[1].some
        /\ regenerate(parsed[1].self, parsed[1].turn) = SubSeq(fields(fen, " "), 1, 4)

\* C17: from_fen returns None for every position string that is not
\* well-formed.
C17_MalformedIsNone ==
    (parsed # <<>> /\ ~well_formed(fen)) => ~parsed[1].some

\* C18: the search is deterministic.  What find_best has returned for board,
\* turn and depth, its loops having met the moves in some order, is what a
\* second invocation returns whose loops meet them in ascending order: the
\* same move and the same score.
C18_SearchIsDeterministic ==
    (best # <<>> /\ run = "searched") =>
        LET again == find_best(board, turn, depth, 0, <<NoPos, NoPos>>)
        IN  /\ again.move = best[1].move
            /\ again.score = best[1].score

\* the negated scores find_best returns, one level down and one depth less,
\* for the boards after each legal move of color (its loops there meeting
\* the moves in ascending order); a call that does not return gives none
replies(self, color, d) ==
    { [move |-> mv, found |-> find_best(move_piece(self, mv[1], mv[2]).self, Not(color),
                                        d - 1, 1, <<NoPos, NoPos>>)] :
        mv \in pairs(Board_moves(self, color).all_moves) }

\* C19: when turn has a legal move and find_best returns, the move it
\* returns is a legal move of turn; at depth 0 its score is eval(board,
\* turn), and at depth d >= 1 its score is the greatest, over the legal
\* moves m, of the negated score of find_best(board after m, the other
\* colour, d - 1).
C19_FindBestIsNegamax ==
    (best # <<>> /\ best[1].end = "ok" /\ best[1].move # None) =>
        /\ best[1].move \in pairs(Board_moves(board, turn).all_moves)
        /\ depth = 0 => best[1].score = eval(board, turn)
        /\ depth >= 1 =>
              LET below == replies(board, turn, depth)
              IN  /\ \A r \in below : r.found.end = "ok" /\ 0 - r.found.score <= best[1].score
                  /\ \E r \in below : 0 - r.found.score = best[1].score

\* find_best has returned from a depth of 1 or more, on a board where the
\* legal moves do not all score the same one level down
C19_Witness ==
    /\ best # <<>>
    /\ run = "searched"
    /\ depth >= 1
    /\ \E r \in replies(board, turn, depth) :
          r.found.end = "ok" /\ 0 - r.found.score < best[1].score
    /\ best[1].score # eval(board, turn)

\* what C20 says of a call find_best(self, color, ..) that has returned
\* `found`: if color has no legal move, no move comes back, and the score is
\* -100000 when color's king is attacked by the other colour and 0 when not
scores_no_move(self, color, found) ==
    pairs(Board_moves(self, color).all_moves) = {} =>
        /\ found.move = None
        /\ found.score = IF attacked(self, find_king(self, color), Not(color)) THEN Lost ELSE 0

\* C20: when turn has no legal move, find_best returns no move, with score
\* -100000 if turn's king is attacked by the opponent and 0 otherwise: at
\* level 0 for the depth movalyzer was called with (0 included), and at
\* level 1, one depth less, on the board after each legal move.
C20_NoMoveScores ==
    (best # <<>> /\ best[1].end = "ok") =>
        /\ scores_no_move(board, turn, best[1])
        /\ depth >= 1 =>
              \A r \in replies(board, turn, depth) :
                  r.found.end = "ok" =>
                      scores_no_move(move_piece(board, r.move[1], r.move[2]).self,
                                     Not(turn), r.found)

\* find_best has returned for a side without a legal move whose king is
\* attacked, at level 0
C20_Witness ==
    /\ best # <<>>
    /\ best[1].end = "ok"
    /\ best[1].move = None
    /\ best[1].score = Lost
    /\ pairs(Board_moves(board, turn).all_moves) = {}
    /\ attacked(board, find_king(board, turn), Not(turn))

\* the corner a rook of `color` starts on, for each direction
corner(color, direction) ==
    Pos(IF direction = "long" THEN 0 ELSE 7, IF color = "White" THEN 0 ELSE 7)

\* the rights C21 says are left by move_piece(from, to) on `self`
rights_as_specified(self, from) ==
    CASE self.board[from][1] = "King" ->
             { r \in rights(self) : r[1] # self.board[from][2] }
      [] self.board[from][1] = "Rook" ->
             { r \in rights(self) : ~(r[1] = self.board[from][2] /\ from = corner(r[1], r[2])) }
      [] OTHER -> rights(self)

\* C21: castling rights change only as specified.  Every move_piece(from, to)
\* call on the present board that returns leaves the rights with both of the
\* mover's cleared when a king moves, with the matching one cleared when a
\* rook leaves its original corner, and unchanged otherwise, also when a
\* rook leaves another square of the a- or h-file.
C21_RightsChangeAsSpecified ==
    \A from \in { p \in Squares : board.board[p] # None } :
        \A to \in Squares \ {from} :
            LET moved == move_piece(board, from, to)
            IN  ~moved.panic => rights(moved.self) = rights_as_specified(board, from)

\* whether the letter c is written in the token
named(token, c) == \E i \in DOMAIN token : token[i] = c

\* C22: on the Board that from_fen returns, White holds the short right iff
\* the castling token names 'K' and the long right iff it names 'Q', Black
\* holds the short right iff it names 'k' and the long right iff it names
\* 'q'; the token '-' names none.
C22_CastleLetters ==
    (parsed # <<>> /\ parsed[1].some) =>
        LET token == fields(fen, " ")[3]
        IN  /\ parsed[1].self.white_castle.short <=> named(token, "K")
            /\ parsed[1].self.white_castle.long <=> named(token, "Q")
            /\ parsed[1].self.black_castle.short <=> named(token, "k")
            /\ parsed[1].self.black_castle.long <=> named(token, "q")

\* the position string s with "-" for its en-passant field
without_square(s) ==
    join([i \in DOMAIN fields(s, " ") |-> IF i = 4 THEN <<"-">> ELSE fields(s, " ")[i]], " ")

\* a square in file-letter and rank-digit form
is_square(field) ==
    /\ Len(field) = 2
    /\ field[1] \in {"a", "b", "c", "d", "e", "f", "g", "h"}
    /\ field[2] \in {"1", "2", "3", "4", "5", "6", "7", "8"}

\* the square a field in that form names
square_of(field) == Pos(index_in(Lower, field[1]) - 1, index_in(Digits, field[2]) - 2)

\* C23: from_fen accepts a position string that is well formed but for its
\* en-passant field, when that field is a square a-h, 1-8; and on the board
\* it returns, every pawn of the side to move that stands beside the pawn
\* which advanced past that square has the square among its candidates.
C23_EnPassantSquareAccepted ==
    (/\ parsed # <<>>
     /\ Len(fields(fen, " ")) = 6
     /\ is_square(fields(fen, " ")[4])
     /\ well_formed(without_square(fen))) =>
        /\ parsed[1].some
        /\ LET target == square_of(fields(fen, " ")[4])
               color == parsed[1].turn
               y == PY(target) + (IF color = "White" THEN 0 - 1 ELSE 1)
           IN  \A x \in {PX(target) - 1, PX(target) + 1} :
                   (/\ inside(x, y)
                    /\ parsed[1].self.board[Pos(x, y)] = <<"Pawn", color>>)
                      => target \in moves(parsed[1].self, "Pawn", Pos(x, y), color, {})

\* the runs that begin on the starting position
from_starting_position == \E s \in Setups : s.name = setup /\ s.board = starting_position

\* the square a king of `color` starts on
home(color) == Pos(4, IF color = "White" THEN 0 ELSE 7)

\* the square a king of `color` castles to, for each direction
castle_to(color, direction) ==
    Pos(IF direction = "long" THEN 2 ELSE 6, IF color = "White" THEN 0 ELSE 7)

\* C24: in every position reached from the starting position by legal moves,
\* a side that holds a castling right has its king on its home square and a
\* rook of its own on the corner of that right; and the side to move has the
\* castling destination among the moves of its king on the home square only
\* with a rook of its own on that corner.
C24_RightsNeedKingAndRook ==
    from_starting_position =>
        /\ \A r \in rights(board) :
              /\ board.board[home(r[1])] = <<"King", r[1]>>
              /\ board.board[corner(r[1], r[2])] = <<"Rook", r[1]>>
        /\ \A direction \in {"short", "long"} :
              (/\ run = "playing"
               /\ board.board[home(turn)] = <<"King", turn>>
               /\ home(turn) \in DOMAIN possible_moves
               /\ castle_to(turn, direction) \in possible_moves[home(turn)])
                  => board.board[corner(turn, direction)] = <<"Rook", turn>>

\* the number of occupied squares of a board
pieces(self) == Cardinality({ p \in Squares : self.board[p] # None })

\* C25: a move_piece call for a move of the legal-move set removes at most
\* one piece and creates none.  For every (from, to) of possible_moves, the
\* board after move_piece(from, to) has as many occupied squares as the
\* present one or exactly one less, and one less exactly when the call
\* returns a captured kind.
C25_MoveTakesAtMostOne ==
    run = "playing" =>
        \A from \in DOMAIN possible_moves :
            \A to \in possible_moves[from] :
                LET moved == move_piece(board, from, to)
                IN  /\ pieces(moved.self) \in {pieces(board), pieces(board) - 1}
                    /\ pieces(moved.self) = pieces(board) - 1 <=> moved.taken # NoPiece

\* the squares holding a king of `color`
kings_of(self, color) == { p \in Squares : self.board[p] = <<"King", color>> }

\* Board::moves(color) on `self` meets "No king found": for some candidate of
\* a piece of `color`, the copy in_check_after moves on has no king of `color`
no_king_found(self, color) ==
    \E pos \in { p \in Squares : self.board[p] # None /\ self.board[p][2] = color } :
        \E to \in moves(self, self.board[pos][1], pos, color, {}) \cap Squares :
            LET moved == move_piece(self, pos, to)
            IN  ~moved.panic /\ find_king(moved.self, color) = NoPos

\* C26: after any sequence of moves, each of the legal-move set of the side
\* to move, from the starting position with White to move, the board holds
\* exactly one king of each colour, and the Board::moves call for the side to
\* move never fails to find that side's king.
C26_OneKingEach ==
    from_starting_position =>
        /\ \A color \in {"White", "Black"} : Cardinality(kings_of(board, color)) = 1
        /\ ~no_king_found(board, turn)

\* the squares holding a piece of `color`
own_squares(self, color) ==
    { p \in Squares : self.board[p] # None /\ self.board[p][2] = color }

\* `color` has a move on `self`: a candidate of one of its pieces that does
\* not leave its king attacked
has_legal_move(self, color) ==
    \E pos \in own_squares(self, color) :
        \E to \in moves(self, self.board[pos][1], pos, color, {}) \cap Squares :
            ~leaves_king_attacked(self, pos, to, color)

\* C27: for either colour, the count Board::moves returns is the number of
\* (from, to) pairs of the mapping it returns, it is zero exactly when the
\* colour has no legal move, and the keys of the mapping are exactly the
\* squares holding a piece of the colour, those with an empty set included.
C27_CountAndKeys ==
    LET right(color, legal, found) ==
            found.end = "ok" =>
                /\ found.total_moves = Cardinality(pairs(found.all_moves))
                /\ found.total_moves = 0 <=> ~legal
                /\ DOMAIN found.all_moves = own_squares(board, color)
    IN  run \in {"playing", "ended"} =>
            \A color \in {"White", "Black"} :
                right(color, has_legal_move(board, color), Board_moves(board, color))

\* a play_move has left the side to move with several pieces and a count of
\* zero, and the other side with a piece that has an empty set beside pieces
\* that have moves
C27_Witness ==
    LET none_and_some(mine, theirs) ==
            /\ mine.end = "ok" /\ theirs.end = "ok"
            /\ mine.total_moves = 0
            /\ Cardinality(DOMAIN mine.all_moves) > 1
            /\ theirs.total_moves > 0
            /\ \E p \in DOMAIN theirs.all_moves : theirs.all_moves[p] = {}
    IN  /\ Played
        /\ run = "ended"
        /\ none_and_some(Board_moves(board, turn), Board_moves(board, Not(turn)))

\* the candidate set of the pawn of `color` on pos, as specified; `known` is
\* the history of two-square advances
pawn_as_specified(self, color, pos, known) ==
    LET d == IF color = "White" THEN 1 ELSE 0 - 1
        y == PY(pos)
        forward(n) == Pos(PX(pos), y + n * d)
        capture(x) ==
            /\ inside(x, y + d)
            /\ \/ /\ self.board[Pos(x, y + d)] # None
                  /\ self.board[Pos(x, y + d)][2] = Not(color)
               \/ \E r \in known : /\ ~r.replied
                                   /\ r.skipped = Pos(x, y + d)
                                   /\ self.board[r.pawn] = <<"Pawn", Not(color)>>
    IN  IF ~inside(PX(pos), y + d) THEN {}
        ELSE (IF self.board[forward(1)] = None THEN {forward(1)} ELSE {})
             \cup (IF /\ y = (IF color = "White" THEN 1 ELSE 6)
                      /\ self.board[forward(1)] = None
                      /\ self.board[forward(2)] = None
                     THEN {forward(2)} ELSE {})
             \cup { Pos(x, y + d) : x \in { x \in {PX(pos) - 1, PX(pos) + 1} : capture(x) } }

\* C28: the candidate set of every pawn of the side to move is exactly the
\* square one step forward iff it is empty, the square two steps forward iff
\* the pawn is on its starting rank and both squares ahead are empty, and
\* each forward diagonal square iff it is on the board and holds an enemy
\* piece or is the square skipped by an enemy pawn that has just advanced
\* two squares; nothing for a pawn on its farthest rank.
C28_PawnCandidatesExact ==
    \A pos \in { p \in Squares : board.board[p] = <<"Pawn", turn>> } :
        pawn(board, turn, pos) = pawn_as_specified(board, turn, pos, two_steps)

\* s is the beginning of t
prefix(s, t) == Len(s) <= Len(t) /\ \A i \in DOMAIN s : s[i] = t[i]

\* the moves of a sequence of records, in order, that satisfy `chosen`
moves_of(records, chosen(_)) ==
    LET RECURSIVE picked(_)
        picked(i) == IF i = 0 THEN <<>>
                     ELSE IF chosen(records[i]) THEN Append(picked(i - 1), records[i].move)
                     ELSE picked(i - 1)
    IN  picked(Len(records))

\* C29: while no connection is lost, the relay has read every move it has
\* accepted from the player whose colour was its turn, the moves it has
\* accepted are the moves committed, in order, it has forwarded each of them
\* once, to the other player, and never to its sender, and what has reached
\* a client is the beginning of the moves its opponent has had accepted, in
\* order: no accepted move is lost, duplicated or echoed.
C29_RelayForwardsEveryMove ==
    (\A c \in Color : ~wire.lost[c]) =>
        /\ \A i \in DOMAIN relay.accepted : relay.accepted[i].color = relay.accepted[i].turn
        /\ prefix([i \in DOMAIN relay.accepted |->
                      <<relay.accepted[i].color, relay.accepted[i].move>>],
                  relay.committed)
        /\ relay.forwarded = [i \in DOMAIN relay.accepted |->
                                 [to |-> Not(relay.accepted[i].color),
                                  move |-> relay.accepted[i].move]]
        /\ \A c \in Color :
              LET from_opponent(a) == a.color = Not(c)
              IN  prefix(relay.delivered[c], moves_of(relay.accepted, from_opponent))

\* the confirm key the client of color c has just handled has called play_move
applied(c) == clients[c].game.ply # relay.keyed[c][1].before.game.ply

\* the client of color c has the board and the turn it had before the
\* confirm key it has just handled
same_game(c) ==
    /\ clients[c].game.board = relay.keyed[c][1].before.game.board
    /\ clients[c].game.turn = relay.keyed[c][1].before.game.turn
    /\ ~applied(c)

\* C30: the confirm key of a networked game.  A client that has handled it
\* has sent a move or applied one only if, before, it was the turn of its
\* colour, the selected square held a piece of its colour and the cursor was
\* a legal destination of the selected square, and then it has sent that
\* move; on the opponent's turn it has only cleared the selection, leaving
\* board and turn as they were and sending nothing; and when send has failed
\* it has not applied the move.
C30_ConfirmKeyCommits ==
    \A c \in DOMAIN clients :
        relay.keyed[c] # NoKey =>
            LET key == relay.keyed[c][1]
                before == key.before
            IN  /\ (key.sent # <<>> \/ ~same_game(c)) =>
                      /\ before.game.turn = c
                      /\ before.moving # NoPos
                      /\ before.game.board.board[before.moving] # None
                      /\ before.game.board.board[before.moving][2] = c
                      /\ before.moving \in DOMAIN before.game.possible_moves
                      /\ before.cursor \in before.game.possible_moves[before.moving]
                      /\ key.sent = <<Move(before.moving, before.cursor)>>
                      /\ key.send_ok
                /\ before.game.turn # c =>
                      /\ clients[c].moving = NoPos
                      /\ same_game(c)
                      /\ key.sent = <<>>
                /\ ~key.send_ok => same_game(c)

\* a client has just sent and applied a move with the confirm key, and its
\* opponent has just pressed the confirm key on a piece while it was not its
\* turn
C30_Witness ==
    /\ clients # <<>>
    /\ \E c \in Color :
          /\ relay.keyed[c] # NoKey
          /\ relay.keyed[c][1].sent # <<>>
          /\ applied(c)
          /\ clients[c].game.board # relay.keyed[c][1].before.game.board
          /\ relay.keyed[Not(c)] # NoKey
          /\ relay.keyed[Not(c)][1].before.game.turn = c
          /\ relay.keyed[Not(c)][1].before.game.board.board[
                 relay.keyed[Not(c)][1].before.cursor] # None

\* C31: with the server and both clients started on the same board and
\* turn, no client meets "Remote sent move while it was your turn": under
\* every interleaving of keys, deliveries and channel receives, every move
\* the loop of a client has taken from its channel came while the turn of
\* its game was the colour of its opponent, and no client has left its loop
\* for a move that came on its own turn.
C31_NoRemoteMoveOnOwnTurn ==
    \A c \in DOMAIN clients :
        /\ clients[c].game.run # "left"
        /\ \A i \in DOMAIN relay.turns[c] : relay.turns[c][i] = Not(clients[c].color)

\* each client has taken a move of its opponent from its channel, and one of
\* them two
C31_Witness ==
    /\ clients # <<>>
    /\ \A c \in Color : Len(relay.turns[c]) >= 1
    /\ \E c \in Color : Len(relay.delivered[c]) = 2

\* no move is in flight: the sockets and the channels are empty
quiet == \A c \in Color : wire.up[c] = <<>> /\ wire.down[c] = <<>> /\ wire.chan[c] = <<>>

\* the moves the players have committed, in order
committed_moves == [i \in DOMAIN relay.committed |-> relay.committed[i][2]]

\* C32: server and clients stay in agreement while no connection is lost.
\* The moves applied to the board of the server, and to the board of each
\* client, are a beginning of the moves the players have committed, in
\* order; and whenever no move is in flight the board and the turn of each
\* client are those of the server.
C32_ServerAndClientsAgree ==
    (\A c \in Color : ~wire.lost[c]) =>
        /\ \A w \in DOMAIN relay.applied : prefix(relay.applied[w], committed_moves)
        /\ quiet => \A c \in Color : /\ clients[c].game.board = server.board
                                     /\ clients[c].game.turn = server.turn

\* the three processes of a networked game, and which of them have ended the
\* game, with what outcome
processes == Color \cup {"server"}

game_ended(w) ==
    IF w = "server" THEN server.run = "finished" ELSE clients[w].game.run = "ended"

outcome(w) == IF w = "server" THEN server.end ELSE clients[w].game.end

\* no connection has been lost
all_connected == \A c \in Color : ~wire.lost[c]

\* C33: the end of a networked game, while no connection is lost.  A server
\* that has stopped the game has forwarded every move it accepted, the last
\* one included; the processes that have ended the game have ended it after
\* the same moves with the same outcome, a Draw or the same Winner; a process
\* that has ended the game has no further move applied to its board; and
\* once one process has ended the game, all three end it.
C33_GameEndsEverywhere ==
    /\ [](all_connected =>
            /\ game_ended("server") => Len(relay.forwarded) = Len(relay.accepted)
            /\ \A v \in processes : \A w \in processes :
                  (game_ended(v) /\ game_ended(w)) =>
                      /\ outcome(v) = outcome(w)
                      /\ outcome(v) # NoEnd
                      /\ relay.applied[v] = relay.applied[w])
    /\ [][\A w \in processes : game_ended(w) => relay.applied'[w] = relay.applied[w]]_vars
    /\ (\E w \in processes : game_ended(w))
          ~> (~all_connected \/ \A w \in processes : game_ended(w))

\* the server and both clients have ended the game on White's first move,
\* with a draw
C33_Witness ==
    /\ clients # <<>>
    /\ all_connected
    /\ \A w \in processes : game_ended(w) /\ outcome(w) = Draw /\ Len(relay.applied[w]) = 1

\* C34: while a client is in its loop, the square it has selected is a key of
\* the legal moves of its game, so that the lookup of the confirm key finds it
C34_MovingIsAKey ==
    \A c \in DOMAIN clients :
        (playing(c) /\ clients[c].moving # NoPos) =>
            clients[c].moving \in DOMAIN clients[c].game.possible_moves

====
